---- MODULE Spec2Model ----
(***************************************************************************)
(* Record protection of rustls-wolfcrypt-provider: the AES-128-GCM         *)
(* (TLS 1.2) and ChaCha20-Poly1305 (TLS 1.2 and TLS 1.3) message           *)
(* encrypters and decrypters, and extract_keys.                            *)
(*                                                                         *)
(* Bytes are integers 0..255 and buffers are sequences of bytes.  A u64    *)
(* sequence number is four 16-bit limbs, most significant first.  A usize  *)
(* is an integer; a negative integer v stands for the wrapped value        *)
(* 2^64 + v that an unchecked subtraction leaves in a release build.       *)
(***************************************************************************)
EXTENDS Integers, Sequences, FiniteSets, Bags, TLC

\* ------------------------------------------------------------------ bounds
\* Longest generated plaintext payload (the "hello" payload is added to these).
MaxPtLen == 1

\* ------------------------------------------------------- program constants
GCM_NONCE_LENGTH == 12
GCM_TAG_LENGTH == 16
CHACHAPOLY1305_OVERHEAD == 16
CHACHA20_POLY1305_AEAD_AUTHTAG_SIZE == 16
NONCE_LEN == 12
ApplicationData == 23
WC_SHA384_DIGEST_SIZE == 48
WC_SHA256_DIGEST_SIZE == 32
\* mem::size_of_val(&self.key): the size of a Vec<u8> (pointer, capacity,
\* length) on a 64-bit target
SizeOfVec == 24
TLSv1_2 == 771

\* ------------------------------------------------------------ byte helpers
Bit(a, k) == (a \div (2 ^ k)) % 2

\* a ^ b on two bytes
Xor8(a, b) ==
    ((Bit(a, 0) + Bit(b, 0)) % 2)
  + ((Bit(a, 1) + Bit(b, 1)) % 2) * 2
  + ((Bit(a, 2) + Bit(b, 2)) % 2) * 4
  + ((Bit(a, 3) + Bit(b, 3)) % 2) * 8
  + ((Bit(a, 4) + Bit(b, 4)) % 2) * 16
  + ((Bit(a, 5) + Bit(b, 5)) % 2) * 32
  + ((Bit(a, 6) + Bit(b, 6)) % 2) * 64
  + ((Bit(a, 7) + Bit(b, 7)) % 2) * 128

Zeros(n) == [i \in 1..n |-> 0]

Fill(n, b) == [i \in 1..n |-> b]

\* Rust s[from..to]: 0-based, half open
Slice(s, from, to) == SubSeq(s, from + 1, to)

\* codec::put_u16: a u16 as 2 big-endian bytes
put_u16(v) == << (v \div 256) % 256, v % 256 >>

\* codec::put_u64: a u64 (four 16-bit limbs) as 8 big-endian bytes
put_u64(seq) ==
    put_u16(seq[1]) \o put_u16(seq[2]) \o put_u16(seq[3]) \o put_u16(seq[4])

\* usize as u16 (a negative v is 2^64 + v, and 2^16 divides 2^64)
AsU16(v) == v % 65536

\* <[u8]>::copy_from_slice(dst, src): panics unless the lengths agree
CopyFromSliceOk(dstLen, src) == Len(src) = dstLen

\* -------------------------------------------------- rustls cipher helpers
\* Nonce::new(&iv, seq): the 12-byte IV xored with 0^4 || seq (big endian)
Nonce_new_SeqTruncated(iv, seq) ==
    LET s == Zeros(4) \o put_u64(<<0, seq[2], seq[3], seq[4]>>)
    IN  [i \in 1..NONCE_LEN |-> Xor8(s[i], iv[i])]

Nonce_new(iv, seq) ==
    LET s == Zeros(4) \o put_u64(seq)
    IN  [i \in 1..NONCE_LEN |-> Xor8(s[i], iv[i])]

make_tls12_aad_LenFirst(seq, typ, vers, len) ==
    put_u16(len % 65536) \o put_u64(seq) \o <<typ>> \o put_u16(vers)

\* make_tls12_aad(seq, typ, vers, len): seq(8) || typ(1) || version(2) || len(2)
make_tls12_aad(seq, typ, vers, len) ==
    put_u64(seq) \o <<typ>> \o put_u16(vers) \o put_u16(AsU16(len))

make_tls13_aad_Tls13Version(payload_len) ==
    <<23, 3, 4>> \o put_u16(payload_len % 65536)

\* make_tls13_aad(payload_len): 0x17 || 0x0303 || len(2)
make_tls13_aad(payload_len) ==
    <<ApplicationData, 3, 3>> \o put_u16(AsU16(payload_len))

\* OutboundOpaqueMessage::encode: 5-byte header, then the payload
Encode(msg) ==
    <<msg.typ>> \o put_u16(msg.version) \o put_u16(Len(msg.payload)) \o msg.payload

\* ------------------------------------------------------- primitive engine
\* The AEAD primitives are external.  They are modelled as deterministic
\* functions of (key, nonce, aad, text): a keystream xored over the text and
\* a 16-byte tag over key, nonce, aad and ciphertext.
\* sum of (s[i] + 1) * weight(i) over lo..hi, modulo the prime p, with
\* weight(i) = a * i * i + i + 1
WSum(s, lo, hi, a, p) ==
    BagCardinality([i \in lo..hi |-> (s[i] + 1) * (a * i * i + i + 1)]) % p

Mix1(s) == WSum(s, 1, Len(s), 3, 65521)

Mix2(s) == WSum(s, 1, Len(s), 5, 65519)

KeyStream(key, nonce, n) ==
    LET k == Mix1(key \o nonce)
    IN  [i \in 1..n |-> (k + 97 * i * i + (k \div 256) * i) % 256]

StreamXor(key, nonce, text) ==
    LET ks == KeyStream(key, nonce, Len(text))
    IN  [i \in 1..Len(text) |-> Xor8(text[i], ks[i])]

TagOf(key, nonce, aad, ct) ==
    LET x  == key \o nonce \o <<Len(aad)>> \o aad \o <<Len(ct)>> \o ct
        h1 == Mix1(x)
        h2 == Mix2(x)
    IN  put_u16(h1) \o put_u16(h2) \o
        [j \in 1..12 |-> (h1 + j * h2 + j) % 256]

\* seal(key, nonce, aad, plaintext) -> (ciphertext, tag)
Seal(key, nonce, aad, pt) ==
    LET ct == StreamXor(key, nonce, pt)
    IN  [ct |-> ct, tag |-> TagOf(key, nonce, aad, ct)]

\* open(key, nonce, aad, ciphertext, tag) -> plaintext | AuthFailure
Open(key, nonce, aad, ct, tag) ==
    [ok |-> tag = TagOf(key, nonce, aad, ct),
     pt |-> StreamXor(key, nonce, ct)]

\* check_if_zero(ret): Ok(()) when ret is 0, an error otherwise
check_if_zero(ret) == ret = 0

\* wc_AesGcmSetKey: fails on a key length other than 16, 24 or 32
wc_AesGcmSetKey(key) == IF Len(key) \in {16, 24, 32} THEN 0 ELSE -173

\* wc_AesGcmEncrypt(aes, out, in, sz, iv, ivSz, authTag, 16, authIn, authInSz):
\* 0, or a negative code when the engine reports an internal fault
wc_AesGcmEncrypt(key, in, nonce, aad, fault) ==
    LET s == Seal(key, nonce, aad, in)
    IN  [ret |-> IF fault THEN -173 ELSE 0, out |-> s.ct,
         tag |-> Slice(s.tag, 0, GCM_TAG_LENGTH)]

\* wc_AesGcmDecrypt: AES_GCM_AUTH_E (-180) on a tag mismatch
wc_AesGcmDecrypt(key, in, nonce, tag, aad) ==
    LET o == Open(key, nonce, aad, in, tag)
    IN  [ret |-> IF o.ok THEN 0 ELSE -180, out |-> o.pt]

\* wc_ChaCha20Poly1305_Encrypt(key, iv, aad, aadLen, in, inLen, out, tag):
\* 0, or a negative code when the engine reports an internal fault
wc_ChaCha20Poly1305_Encrypt(key, nonce, aad, in, fault) ==
    LET s == Seal(key, nonce, aad, in)
    IN  [ret |-> IF fault THEN -173 ELSE 0, out |-> s.ct,
         tag |-> Slice(s.tag, 0, CHACHA20_POLY1305_AEAD_AUTHTAG_SIZE)]

\* wc_ChaCha20Poly1305_Decrypt: MAC_CMP_FAILED_E (-213) on a tag mismatch
wc_ChaCha20Poly1305_Decrypt(key, nonce, aad, in, tag) ==
    LET o == Open(key, nonce, aad, in, tag)
    IN  [ret |-> IF o.ok THEN 0 ELSE -213, out |-> o.pt]

\* ---------------------------------------------------------------- results
NoBytes == << >>

\* what an encrypt call gives back (nonce, aad: what the primitive was given)
EncOk(typ, version, payload, cap, nonce, aad) ==
    [kind |-> "Ok", typ |-> typ, version |-> version, payload |-> payload,
     cap |-> cap, nonce |-> nonce, aad |-> aad, detail |-> ""]

EncPanic(site) ==
    [kind |-> "Panic", typ |-> 0, version |-> 0, payload |-> NoBytes,
     cap |-> 0, nonce |-> NoBytes, aad |-> NoBytes, detail |-> site]

EncNone ==
    [kind |-> "None", typ |-> 0, version |-> 0, payload |-> NoBytes,
     cap |-> 0, nonce |-> NoBytes, aad |-> NoBytes, detail |-> ""]

\* what a decrypt call gives back, and the record buffer it leaves behind:
\* buf is the borrowed buffer's bytes, blen the length of the payload view
DecOk(typ, version, payload, buf) ==
    [kind |-> "Ok", typ |-> typ, version |-> version, payload |-> payload,
     buf |-> buf, blen |-> Len(payload), detail |-> ""]

DecErr(err, buf, blen) ==
    [kind |-> "Err", typ |-> 0, version |-> 0, payload |-> NoBytes,
     buf |-> buf, blen |-> blen, detail |-> err]

DecPanic(site, buf, blen) ==
    [kind |-> "Panic", typ |-> 0, version |-> 0, payload |-> NoBytes,
     buf |-> buf, blen |-> blen, detail |-> site]

DecNone ==
    [kind |-> "None", typ |-> 0, version |-> 0, payload |-> NoBytes,
     buf |-> NoBytes, blen |-> 0, detail |-> ""]

\* ------------------------------------------------------ AES-128-GCM TLS 1.2
\* Aes128Gcm::encrypter(key, iv, extra): iv is 4 implicit || 8 explicit bytes
Aes128Gcm_encrypter(key, iv, extra) ==
    [iv |-> iv \o extra, key |-> key]

\* Aes128Gcm::decrypter(key, iv): only the 4 implicit bytes
Aes128Gcm_decrypter(key, iv) ==
    [iv |-> iv, key |-> key]

Aes_encrypted_payload_len_NonceTwice(payload_len) ==
    payload_len + GCM_NONCE_LENGTH + GCM_TAG_LENGTH

\* WCTls12Encrypter::encrypted_payload_len
Aes_encrypted_payload_len(payload_len) ==
    payload_len + (GCM_NONCE_LENGTH - 4) + GCM_TAG_LENGTH

Aes_explicit_nonce_First8(nonce) ==
    Slice(nonce, 0, GCM_NONCE_LENGTH - 4)

Aes_explicit_nonce_Whole(nonce) ==
    Slice(nonce, 0, GCM_NONCE_LENGTH)

\* the explicit part of the nonce that encrypt writes before the payload
Aes_explicit_nonce(nonce) ==
    Slice(nonce, GCM_NONCE_LENGTH - 8, GCM_NONCE_LENGTH)

Aes_plaintext_len_TagOnly(payload_len) ==
    payload_len - GCM_TAG_LENGTH

\* the plaintext length decrypt puts in the AAD
Aes_plaintext_len(payload_len) ==
    payload_len - GCM_TAG_LENGTH - (GCM_NONCE_LENGTH - 4)

\* the AAD decrypt gives the primitive for the inbound record m
WCTls12Decrypter_aad(m, seq) ==
    make_tls12_aad(seq, m.typ, m.version, Aes_plaintext_len(Len(m.payload)))

WCTls12Decrypter_nonce_FromSeq(self, m, seq) ==
    self.iv \o put_u64(seq)

\* the nonce decrypt gives the primitive: nonce[..4] from self.iv,
\* nonce[4..] from the first 8 bytes of the payload
WCTls12Decrypter_nonce(self, m, seq) ==
    self.iv \o Slice(m.payload, 0, GCM_NONCE_LENGTH - 4)

copy_within_to_0_NotMoved(buf, from, to) == buf

\* payload.copy_within(from..to, 0)
copy_within_to_0(buf, from, to) ==
    Slice(buf, from, to) \o Slice(buf, to - from, Len(buf))

WCTls12Encrypter_encrypt_FromOffset0(self, m, seq, fault) ==
    LET nonce == Nonce_new(self.iv, seq)
        p0    == Aes_explicit_nonce(nonce) \o m.payload
        aad   == make_tls12_aad(seq, m.typ, m.version, Len(m.payload))
        e     == wc_AesGcmEncrypt(self.key, Slice(p0, 0, Len(m.payload)),
                                  nonce, aad, fault)
    IN  IF e.ret < 0 THEN EncPanic("wc_AesGcmEncrypt")
        ELSE EncOk(m.typ, m.version,
                   e.out \o Slice(p0, Len(m.payload), Len(p0)) \o e.tag,
                   Aes_encrypted_payload_len(Len(m.payload)), nonce, aad)

\* WCTls12Encrypter::encrypt
WCTls12Encrypter_encrypt(self, m, seq, fault) ==
    LET total_len     == Aes_encrypted_payload_len(Len(m.payload))
        nonce         == Nonce_new(self.iv, seq)
        p0            == Aes_explicit_nonce(nonce) \o m.payload
        aad           == make_tls12_aad(seq, m.typ, m.version, Len(m.payload))
        payload_start == GCM_NONCE_LENGTH - 4
        payload_end   == Len(m.payload) + (GCM_NONCE_LENGTH - 4)
        e             == wc_AesGcmEncrypt(self.key,
                            Slice(p0, payload_start, payload_end), nonce, aad,
                            fault)
        p1            == Slice(p0, 0, payload_start) \o e.out
                            \o Slice(p0, payload_end, Len(p0))
    IN  IF wc_AesGcmSetKey(self.key) < 0 THEN EncPanic("wc_AesGcmSetKey")
        ELSE IF e.ret < 0 THEN EncPanic("wc_AesGcmEncrypt")
        ELSE EncOk(m.typ, m.version, p1 \o e.tag, total_len, nonce, aad)

\* WCTls12Decrypter::decrypt.  checked: the build checks arithmetic overflow
\* (debug) or wraps (release).  writes: the primitive stores its output
\* before it reports a tag mismatch, or leaves the buffer alone.
WCTls12Decrypter_decrypt(self, m, seq, checked, writes) ==
    LET payload       == m.payload
        payload_len   == Len(payload)
        tag_at        == payload_len - GCM_TAG_LENGTH
        pt_len        == Aes_plaintext_len(payload_len)
        nonce         == WCTls12Decrypter_nonce(self, m, seq)
        auth_tag      == Slice(payload, tag_at, payload_len)
        aad           == WCTls12Decrypter_aad(m, seq)
        payload_start == GCM_NONCE_LENGTH - 4
        payload_end   == payload_len - GCM_TAG_LENGTH
        d             == wc_AesGcmDecrypt(self.key,
                            Slice(payload, payload_start, payload_end),
                            nonce, auth_tag, aad)
        written       == Slice(payload, 0, payload_start) \o d.out
                            \o Slice(payload, payload_end, payload_len)
        moved         == copy_within_to_0(written, payload_start,
                                          payload_len - GCM_TAG_LENGTH)
    IN  IF payload_len < GCM_NONCE_LENGTH - 4
          THEN DecPanic("slice_end_index", payload, payload_len)
        ELSE IF tag_at < 0 /\ checked
          THEN DecPanic("subtract_overflow", payload, payload_len)
        ELSE IF tag_at < 0
          THEN DecPanic("slice_start_index", payload, payload_len)
        ELSE IF pt_len < 0 /\ checked
          THEN DecPanic("subtract_overflow", payload, payload_len)
        ELSE IF wc_AesGcmSetKey(self.key) < 0
          THEN DecPanic("wc_AesGcmSetKey", payload, payload_len)
        ELSE IF payload_end < payload_start
          THEN DecPanic("slice_index_order", payload, payload_len)
        ELSE IF d.ret < 0
          THEN DecPanic("wc_AesGcmDecrypt",
                        IF writes THEN written ELSE payload, payload_len)
        ELSE DecOk(m.typ, m.version,
                   Slice(moved, 0, payload_len - (payload_start + GCM_TAG_LENGTH)),
                   moved)

\* ------------------------------------------------ ChaCha20-Poly1305 TLS 1.2
\* Chacha20Poly1305::encrypter / decrypter (Tls12AeadAlgorithm): Iv::copy(iv)
Chacha12_cipher(key, iv) ==
    [iv |-> iv, key |-> key]

\* WCTls12Cipher::encrypted_payload_len
Chacha12_encrypted_payload_len(payload_len) ==
    payload_len + CHACHAPOLY1305_OVERHEAD

\* the AAD decrypt gives the primitive for the inbound record m
WCTls12Cipher_decrypt_aad(m, seq) ==
    make_tls12_aad(seq, m.typ, m.version, Len(m.payload) - CHACHAPOLY1305_OVERHEAD)

WCTls12Cipher_encrypt_EmptyRejected(self, m, seq, fault) ==
    IF fault \/ Len(m.payload) = 0 THEN EncPanic("check_if_zero")
    ELSE LET nonce == Nonce_new(self.iv, seq)
             aad   == make_tls12_aad(seq, m.typ, m.version, Len(m.payload))
             e     == wc_ChaCha20Poly1305_Encrypt(self.key, nonce, aad,
                                                  m.payload, fault)
         IN  EncOk(m.typ, m.version, e.out \o e.tag,
                   Chacha12_encrypted_payload_len(Len(m.payload)), nonce, aad)

\* WCTls12Cipher::encrypt
WCTls12Cipher_encrypt(self, m, seq, fault) ==
    LET total_len == Chacha12_encrypted_payload_len(Len(m.payload))
        payload   == m.payload
        nonce     == Nonce_new(self.iv, seq)
        aad       == make_tls12_aad(seq, m.typ, m.version, Len(m.payload))
        e         == wc_ChaCha20Poly1305_Encrypt(self.key, nonce, aad,
                        Slice(payload, 0, Len(m.payload)), fault)
        output    == e.out \o e.tag
    IN  IF ~check_if_zero(e.ret) THEN EncPanic("check_if_zero")
        ELSE EncOk(m.typ, m.version, output, total_len, nonce, aad)

\* WCTls12Cipher::decrypt
WCTls12Cipher_decrypt(self, m, seq, checked, writes) ==
    LET payload     == m.payload
        message_len == Len(payload) - CHACHAPOLY1305_OVERHEAD
        nonce       == Nonce_new(self.iv, seq)
        aad         == WCTls12Cipher_decrypt_aad(m, seq)
        auth_tag    == Slice(payload, message_len, Len(payload))
        d           == wc_ChaCha20Poly1305_Decrypt(self.key, nonce, aad,
                          Slice(payload, 0, message_len), auth_tag)
        written     == d.out \o auth_tag
    IN  IF message_len < 0 /\ checked
          THEN DecPanic("subtract_overflow", payload, Len(payload))
        ELSE IF message_len < 0
          THEN DecPanic("slice_start_index", payload, Len(payload))
        ELSE IF ~check_if_zero(d.ret)
          THEN DecPanic("check_if_zero",
                        IF writes THEN written ELSE payload, Len(payload))
        ELSE DecOk(m.typ, m.version, Slice(written, 0, message_len), written)

\* ------------------------------------------------ ChaCha20-Poly1305 TLS 1.3
\* Chacha20Poly1305::encrypter / decrypter (Tls13AeadAlgorithm)
Chacha13_cipher(key, iv) ==
    [iv |-> iv, key |-> key]

\* WCTls13Cipher::encrypted_payload_len
Chacha13_encrypted_payload_len(payload_len) ==
    payload_len + 1 + CHACHAPOLY1305_OVERHEAD

\* the AAD decrypt gives the primitive for the inbound record m
WCTls13Cipher_decrypt_aad(m) ==
    make_tls13_aad(Len(m.payload))

\* WCTls13Cipher::encrypt
WCTls13Cipher_encrypt(self, m, seq, fault) ==
    LET total_len == Chacha13_encrypted_payload_len(Len(m.payload))
        p0        == m.payload \o <<m.typ>>
        nonce     == Nonce_new(self.iv, seq)
        aad       == make_tls13_aad(total_len)
        e         == wc_ChaCha20Poly1305_Encrypt(self.key, nonce, aad,
                        Slice(p0, 0, Len(m.payload) + 1), fault)
        p1        == e.out \o Slice(p0, Len(m.payload) + 1, Len(p0))
    IN  IF ~check_if_zero(e.ret) THEN EncPanic("check_if_zero")
        ELSE EncOk(ApplicationData, TLSv1_2, p1 \o e.tag, total_len, nonce, aad)

unpad_tls13_payload_LastByte(p) ==
    IF Len(p) = 0 THEN [typ |-> 0, payload |-> p]
    ELSE [typ |-> p[Len(p)], payload |-> SubSeq(p, 1, Len(p) - 1)]

\* unpad_tls13_payload: pop trailing zero bytes, then the content type byte
RECURSIVE unpad_tls13_payload(_)
unpad_tls13_payload(p) ==
    IF Len(p) = 0 THEN [typ |-> 0, payload |-> p]
    ELSE IF p[Len(p)] = 0 THEN unpad_tls13_payload(SubSeq(p, 1, Len(p) - 1))
    ELSE [typ |-> p[Len(p)], payload |-> SubSeq(p, 1, Len(p) - 1)]

into_tls13_unpadded_message_OuterType(version, p, buf) ==
    DecOk(ApplicationData, version, p, buf)

\* InboundOpaqueMessage::into_tls13_unpadded_message on the truncated
\* payload view p of the buffer buf
into_tls13_unpadded_message(version, p, buf) ==
    LET u == unpad_tls13_payload(p)
    IN  IF Len(p) > 16384 + 1
          THEN DecErr("PeerSentOversizedRecord", buf, Len(p))
        ELSE IF u.typ = 0
          THEN DecErr("PeerMisbehaved::IllegalTlsInnerPlaintext",
                      buf, Len(u.payload))
        ELSE DecOk(u.typ, version, u.payload, buf)

\* WCTls13Cipher::decrypt
WCTls13Cipher_decrypt(self, m, seq, checked, writes) ==
    LET payload     == m.payload
        nonce       == Nonce_new(self.iv, seq)
        aad         == WCTls13Cipher_decrypt_aad(m)
        message_len == Len(payload) - CHACHAPOLY1305_OVERHEAD
        auth_tag    == Slice(payload, message_len, Len(payload))
        d           == wc_ChaCha20Poly1305_Decrypt(self.key, nonce, aad,
                          Slice(payload, 0, message_len), auth_tag)
        written     == d.out \o auth_tag
    IN  IF message_len < 0 /\ checked
          THEN DecPanic("subtract_overflow", payload, Len(payload))
        ELSE IF message_len < 0
          THEN DecPanic("slice_start_index", payload, Len(payload))
        ELSE IF ~check_if_zero(d.ret)
          THEN DecPanic("check_if_zero",
                        IF writes THEN written ELSE payload, Len(payload))
        ELSE into_tls13_unpadded_message(m.version,
                 Slice(written, 0, message_len), written)

\* ----------------------------------------------------------- extract_keys
KeysOk(key, iv) == [kind |-> "Ok", key |-> key, iv |-> iv, detail |-> ""]

KeysPanic(site) == [kind |-> "Panic", key |-> NoBytes, iv |-> NoBytes, detail |-> site]

KeysNone == [kind |-> "None", key |-> NoBytes, iv |-> NoBytes, detail |-> ""]

\* Aes128Gcm::key_block_shape
Aes128Gcm_key_block_shape ==
    [enc_key_len |-> 16, fixed_iv_len |-> 4, explicit_nonce_len |-> 8]

\* Chacha20Poly1305::key_block_shape
Chacha12_key_block_shape ==
    [enc_key_len |-> 32, fixed_iv_len |-> 12, explicit_nonce_len |-> 0]

\* Aes128Gcm::extract_keys: both copy_from_slice calls target the whole
\* 12-byte vector
Aes128Gcm_extract_keys(key, iv, explicit) ==
    IF ~CopyFromSliceOk(GCM_NONCE_LENGTH, iv) THEN KeysPanic("copy_from_slice_iv")
    ELSE IF ~CopyFromSliceOk(GCM_NONCE_LENGTH, explicit)
      THEN KeysPanic("copy_from_slice_explicit")
    ELSE KeysOk(key, explicit)

\* Chacha20Poly1305::extract_keys (Tls12AeadAlgorithm)
Chacha12_extract_keys(key, iv, explicit, checked) ==
    IF checked /\ NONCE_LEN # Len(iv) THEN KeysPanic("debug_assert_eq")
    ELSE IF Len(iv) # NONCE_LEN THEN KeysPanic("try_into_unwrap")
    ELSE KeysOk(key, iv)

\* Chacha20Poly1305::extract_keys (Tls13AeadAlgorithm)
Chacha13_extract_keys(key, iv) ==
    KeysOk(key, iv)

\* ----------------------------------------------------------------- inputs
Key16a == Zeros(16)

Key16b == [i \in 1..16 |-> 16 * i - 1]

Key32a == [i \in 1..32 |-> 127 + i]

Key32b == Zeros(32)

Iv4a == Zeros(4)

Iv4b == <<1, 2, 3, 255>>

Salt8a == Zeros(8)

Salt8b == <<128, 0, 0, 0, 0, 0, 0, 1>>

Iv12a == Zeros(12)

Iv12b == <<7, 0, 0, 0, 64, 65, 66, 67, 68, 69, 70, 255>>

\* (key, 4-byte implicit IV, 8-byte explicit salt) given to Aes128Gcm
AesConfigs ==
    { <<Key16a, Iv4a, Salt8a>>, <<Key16a, Iv4b, Salt8b>>, <<Key16b, Iv4b, Salt8a>> }

\* (key, 12-byte IV) given to Chacha20Poly1305
ChachaConfigs ==
    { <<Key32a, Iv12a>>, <<Key32b, Iv12b>> }

\* u64 sequence numbers: 0, 1 and 2^63 + 1
Seqs == { <<0, 0, 0, 0>>, <<0, 0, 0, 1>>, <<32768, 0, 0, 1>> }

Hello == <<104, 101, 108, 108, 111>>

PtBytes == {0, 65}

Payloads == UNION { [1..n -> PtBytes] : n \in 0..MaxPtLen } \cup {Hello}

\* content types alert, handshake, application data; versions 0x0303, 0x0304
ContentTypes == {21, 22, ApplicationData}

Heads == { <<t, TLSv1_2>> : t \in ContentTypes } \cup { <<22, TLSv1_2 + 1>> }

PlainMessages ==
    { [typ |-> h[1], version |-> h[2], payload |-> p] : h \in Heads, p \in Payloads }

NoMessage == [typ |-> 0, version |-> 0, payload |-> NoBytes]

NoInstance == [iv |-> NoBytes, key |-> NoBytes]

SentNone == [m |-> NoMessage, seq |-> <<0, 0, 0, 0>>, fault |-> FALSE, res |-> EncNone]

RcvdNone == [m |-> NoMessage, seq |-> <<0, 0, 0, 0>>, how |-> "", res |-> DecNone]

XkNone == [key |-> NoBytes, iv |-> NoBytes, explicit |-> NoBytes, res |-> KeysNone]

\* ------------------------------------------------------- inbound records
AES128GCM_TLS12 == "AES128GCM_TLS12"

CHACHA_TLS12 == "CHACHA20POLY1305_TLS12"

CHACHA_TLS13 == "CHACHA20POLY1305_TLS13"

\* the bit flipped in byte i: the lowest in odd positions, the highest in even
FlipMaskAt(i) == IF i % 2 = 1 THEN 1 ELSE 128

\* lengths an L-byte payload is cut to: around the nonce and tag boundaries
CutLens(L) == {0, 1, 7, 8, 15, 16, 23, 24, L - 1} \cap (0..(L - 1))

FlipAt(p, i, mask) == [p EXCEPT ![i] = Xor8(@, mask)]

\* shortest payload a decrypter can split: explicit nonce and tag, or tag
MinPayloadLen(a) ==
    IF a = AES128GCM_TLS12 THEN (GCM_NONCE_LENGTH - 4) + GCM_TAG_LENGTH
    ELSE CHACHAPOLY1305_OVERHEAD

\* the part of the payload that byte i (1-based) of an L-byte payload is in
Region(a, L, i) ==
    IF a = AES128GCM_TLS12 /\ i <= GCM_NONCE_LENGTH - 4 THEN "flip_nonce"
    ELSE IF i > L - GCM_TAG_LENGTH THEN "flip_tag"
    ELSE "flip_ct"

\* The records a decrypter may be handed once w was sent under sseq: w itself
\* (under any sequence number), w with one bit flipped in its payload, content
\* type or version, and w cut short.
Inbound(a, w, sseq) ==
    LET L == Len(w.payload)
    IN  { [m |-> w, seq |-> s, how |-> IF s = sseq THEN "intact" ELSE "other_seq"]
            : s \in Seqs }
        \cup
        { [m |-> [w EXCEPT !.payload = FlipAt(w.payload, i, FlipMaskAt(i))],
           seq |-> sseq, how |-> Region(a, L, i)] : i \in 1..L }
        \cup
        { [m |-> [w EXCEPT !.typ = Xor8(w.typ, 1)], seq |-> sseq, how |-> "flip_typ"],
          [m |-> [w EXCEPT !.version = w.version - (w.version % 256)
                                         + Xor8(w.version % 256, 1)],
           seq |-> sseq, how |-> "flip_version"] }
        \cup
        { [m |-> [w EXCEPT !.payload = SubSeq(w.payload, 1, k)], seq |-> sseq,
           how |-> IF k < MinPayloadLen(a) THEN "short" ELSE "cut"]
            : k \in CutLens(L) }

\* inner plaintexts (content, type byte, zero padding) a TLS 1.3 peer holding
\* the key may seal
PeerInners == { << >>, <<0>>, <<0, 0>>, <<65, 22, 0>> }

\* a TLS 1.3 record sealed by the peer's stack over the inner plaintext
PeerRecord13(self, seq, inner) ==
    LET e == wc_ChaCha20Poly1305_Encrypt(self.key, Nonce_new(self.iv, seq),
                 make_tls13_aad(Len(inner) + CHACHAPOLY1305_OVERHEAD), inner,
                 FALSE)
    IN  [typ |-> ApplicationData, version |-> TLSv1_2, payload |-> e.out \o e.tag]

InboundPeer13(self) ==
    { [m |-> PeerRecord13(self, s, inner), seq |-> s, how |-> "peer"]
        : s \in Seqs, inner \in PeerInners }

\* --------------------------------------------------------- native contexts
\* most middle chunks given to one sign_concat call
MaxMiddle == 1

\* most operations on native contexts in one run
MaxNativeOps == 3

\* the native structs the code hands to the engine: the Aes and WC_RNG
\* locals of a call, the Hmac of a WCHmacKey, the wc_Sha384 of a hasher, the
\* two curve25519_key of a KeyExchange, the ecc_key of an EcdsaSigningKeyP256
CtxNames ==
    {"aes", "rng", "hmac", "sha384", "curve_public", "curve_private", "ecc_key"}

\* a struct as mem::zeroed() leaves it; owner: "none" (not made), "live",
\* or "gone" (the call returned or the owning object was dropped); alloc: the
\* variable that holds the struct is still in scope
CtxZeroed(owner) ==
    [inits |-> 0, keyed |-> FALSE, frees |-> 0, owner |-> owner,
     alloc |-> owner = "live"]

NoCall == [fn |-> "", args |-> << >>, ok |-> TRUE]

Call(fn, args) == [fn |-> fn, args |-> args]

\* WCTls12Encrypter::encrypt: the engine calls it makes, in order
AesEncryptCalls ==
    << Call("wc_AesInit", <<"aes">>), Call("wc_AesGcmSetKey", <<"aes">>),
       Call("wc_AesGcmEncrypt", <<"aes">>) >>

\* WCTls12Decrypter::decrypt
AesDecryptCalls ==
    << Call("wc_AesInit", <<"aes">>), Call("wc_AesGcmSetKey", <<"aes">>),
       Call("wc_AesGcmDecrypt", <<"aes">>) >>

\* EcdsaSigningKeyP256::sign
EcdsaSignCalls ==
    << Call("wc_Sha256Hash", << >>), Call("wc_InitRng", <<"rng">>),
       Call("wc_ecc_sign_hash", <<"rng", "ecc_key">>) >>

\* KeyExchange::use_curve25519: both make_key calls are given the public key
UseCurve25519Calls ==
    << Call("wc_curve25519_init", <<"curve_public">>),
       Call("wc_curve25519_init", <<"curve_private">>),
       Call("wc_InitRng", <<"rng">>),
       Call("wc_curve25519_make_key", <<"rng", "curve_public">>),
       Call("wc_curve25519_make_key", <<"rng", "curve_public">>) >>

\* WCHmacKey::sign_concat with k middle chunks: hmac_init, hmac_update for
\* first, each middle chunk and last, hmac_final
SignConcatCalls(k) ==
    << Call("wc_HmacSetKey", <<"hmac">>) >>
    \o [i \in 1..(k + 2) |-> Call("wc_HmacUpdate", <<"hmac">>)]
    \o << Call("wc_HmacFinal", <<"hmac">>) >>

\* the engine calls of each operation, in order: KeyExchange::
\* derive_shared_secret, Drop for HmacObject, WCSha384::start, Context::update
\* and Context::finish make one call each, WCHmac::with_key none
CallsOf(o, k) ==
    CASE o = "aes_encrypt"          -> AesEncryptCalls
      [] o = "aes_decrypt"          -> AesDecryptCalls
      [] o = "ecdsa_sign"           -> EcdsaSignCalls
      [] o = "use_curve25519"       -> UseCurve25519Calls
      [] o = "derive_shared_secret" ->
            << Call("wc_curve25519_shared_secret",
                    <<"curve_private", "curve_public">>) >>
      [] o = "hmac_with_key"        -> << >>
      [] o = "ecdsa_try_from"       ->
            << Call("wc_ecc_init", <<"ecc_key">>),
               Call("wc_GetPkcs8TraditionalOffset", << >>),
               Call("wc_EccPrivateKeyDecode", <<"ecc_key">>) >>
      [] o = "sign_concat"          -> SignConcatCalls(k)
      [] o = "hmac_drop"            -> << Call("wc_HmacFree", <<"hmac">>) >>
      [] o = "sha384_start"         -> << Call("wc_InitSha384", <<"sha384">>) >>
      [] o = "sha384_update"        -> << Call("wc_Sha384Update", <<"sha384">>) >>
      [] o = "sha384_finish"        -> << Call("wc_Sha384Final", <<"sha384">>) >>

\* the structs that are locals of the operation: made zeroed when it starts,
\* out of scope when it returns or unwinds
LocalsOf(o) ==
    CASE o \in {"aes_encrypt", "aes_decrypt"}    -> {"aes"}
      [] o \in {"ecdsa_sign", "use_curve25519"}  -> {"rng"}
      [] OTHER                                    -> {}

\* the structs of the object the operation constructs and returns
MadeBy(o) ==
    CASE o = "use_curve25519" -> {"curve_public", "curve_private"}
      [] o = "hmac_with_key"  -> {"hmac"}
      [] o = "ecdsa_try_from" -> {"ecc_key"}
      [] o = "sha384_start"   -> {"sha384"}
      [] OTHER                -> {}

\* the structs of the object the operation is called on
UsedBy(o) ==
    CASE o = "derive_shared_secret"              -> {"curve_public", "curve_private"}
      [] o = "ecdsa_sign"                        -> {"ecc_key"}
      [] o \in {"sign_concat", "hmac_drop"}      -> {"hmac"}
      [] o \in {"sha384_update", "sha384_finish"} -> {"sha384"}
      [] OTHER                                    -> {}

\* the structs whose owner is gone once the operation is over: its locals,
\* and the object a drop or a consuming finish was called on
EndedBy(o) ==
    LocalsOf(o) \cup (IF o \in {"hmac_drop", "sha384_finish"} THEN UsedBy(o) ELSE {})

\* the structs that are variables on the stack of the operation, those a
\* returned object keeps a pointer to included (from_ptr(&mut local))
StackOf(o) ==
    CASE o = "use_curve25519" -> {"rng", "curve_public", "curve_private"}
      [] o = "hmac_with_key"  -> {"hmac"}
      [] o = "ecdsa_try_from" -> {"ecc_key"}
      [] OTHER                -> LocalsOf(o)

\* what a call that returned 0 did to the struct c, by the engine's contract
Effect(call, c, st) ==
    IF c \notin {call.args[i] : i \in 1..Len(call.args)} THEN st
    ELSE CASE call.fn \in {"wc_AesInit", "wc_InitRng", "wc_curve25519_init",
                           "wc_InitSha384", "wc_ecc_init"}
                -> [st EXCEPT !.inits = st.inits + 1]
           [] call.fn \in {"wc_AesGcmSetKey", "wc_EccPrivateKeyDecode"}
                -> [st EXCEPT !.keyed = TRUE]
           [] call.fn = "wc_HmacSetKey"
                -> [st EXCEPT !.inits = st.inits + 1, !.keyed = TRUE]
           [] call.fn = "wc_curve25519_make_key" /\ c # "rng"
                -> [st EXCEPT !.keyed = TRUE]
           [] call.fn \in {"wc_AesFree", "wc_FreeRng", "wc_HmacFree"}
                -> [st EXCEPT !.frees = st.frees + 1]
           [] OTHER -> st

NativeNone ==
    [op |-> "", k |-> 0, pc |-> 0, n_ops |-> 0, last |-> NoCall,
     ctx |-> [c \in CtxNames |-> CtxZeroed("none")]]

\* ----------------------------------------------------------- SHA-384 hash
\* most update calls on one context, and most calls in one run
MaxChunks == 2

MaxHashOps == 6

\* data given to update and to hash
HashChunks == { << >>, <<104>>, <<104, 105>>, <<105, 104>> }

\* WCHasher384::wchasher_init: wc_InitSha384 sets the chaining value and the
\* length (an abstract chaining value in place of the eight 64-bit words)
wchasher_init(self) ==
    [self EXCEPT !.sha384_c_type = [h |-> 203, len |-> 0]]

\* the chaining value after data is compressed into h, len bytes having
\* been compressed before: every byte counts with the weight of its place
Absorb(h, len, data) ==
    (h + BagCardinality([i \in 1..Len(data) |->
            (data[i] + 1) * ((len + i) * (len + i) + len + i + 1)])) % 65521

\* WCHasher384::wchasher_update: wc_Sha384Update over data.len() bytes
wchasher_update(self, data) ==
    [self EXCEPT !.sha384_c_type =
        [h   |-> Absorb(self.sha384_c_type.h, self.sha384_c_type.len, data),
         len |-> self.sha384_c_type.len + Len(data)]]

\* WCHasher384::wchasher_final: wc_Sha384Final writes the digest to
\* self.hash and resets the state of the struct
wchasher_final(self) ==
    LET st == self.sha384_c_type
    IN  [sha384_c_type |-> [h |-> 203, len |-> 0],
         hash |-> [i \in 1..WC_SHA384_DIGEST_SIZE |->
                     ((st.h + 7 * st.len) * i + st.h \div 251) % 256]]

\* Clone for WCHasher384: both fields copied by value
WCHasher384_clone(self) ==
    [sha384_c_type |-> self.sha384_c_type, hash |-> self.hash]

\* WCSha384::output_len
WCSha384_output_len == WC_SHA384_DIGEST_SIZE

\* WCSha384::start: a zeroed struct and hash buffer, then wchasher_init
WCSha384_start ==
    wchasher_init([sha384_c_type |-> [h |-> 0, len |-> 0],
                   hash |-> Zeros(WC_SHA384_DIGEST_SIZE)])

fork_finish_OnSelf(self) ==
    [self |-> wchasher_final(self), out |-> wchasher_final(self).hash]

\* WCSha384Context::fork_finish: the final is run on a clone
fork_finish(self) ==
    [self |-> self, out |-> wchasher_final(WCHasher384_clone(self)).hash]

WCSha384_hash_NoUpdate(data) ==
    wchasher_final(WCSha384_start).hash

\* WCSha384::hash: start, update(data), finish
WCSha384_hash(data) ==
    wchasher_final(wchasher_update(WCSha384_start, data)).hash

\* no context: hasher is the boxed WCHasher384, seen the chunks it was given
NoCtx ==
    [live |-> FALSE, seen |-> << >>,
     hasher |-> [sha384_c_type |-> [h |-> 0, len |-> 0],
                 hash |-> Zeros(WC_SHA384_DIGEST_SIZE)]]

\* at: the number of the call that returned it
NoDigest == [op |-> "", digest |-> NoBytes, seen |-> << >>, at |-> 0]

ShaNone ==
    [ctx |-> [c \in {"a", "b"} |-> NoCtx], out |-> NoDigest, prev |-> NoDigest,
     n_ops |-> 0]

\* ----------------------------------------------------------- HMAC-SHA-256
\* keys given to with_key and pieces given to sign_concat: shorter than,
\* as long as and longer than SizeOfVec
HmacKeys == { <<107>>, [i \in 1..SizeOfVec |-> i] }

HmacFirsts == { << >>, <<1, 2>>, [i \in 1..(SizeOfVec + 1) |-> 100 + i] }

HmacMiddles == { <<1, 2>>, <<2>> }

HmacLasts == { << >>, [i \in 1..SizeOfVec |-> 200 + i] }

\* bytes found in memory past the end of a buffer
StrayBytes == {0, 170}

\* what the engine reads when it is handed buf.as_ptr() and the length n:
\* the bytes of buf, then whatever lies behind it
ReadBytes(buf, n, stray) ==
    [i \in 1..n |-> IF i <= Len(buf) THEN buf[i] ELSE stray]

\* WCHmacKey::hmac_init: wc_HmacSetKey(self.key.as_ptr(),
\* size_of_val(&self.key)) keys the context from scratch
hmac_init(self, stray) ==
    [self EXCEPT !.h = Absorb(91, 0, ReadBytes(self.key, SizeOfVec, stray)),
                 !.len = SizeOfVec]

\* WCHmacKey::hmac_update: wc_HmacUpdate(buffer.as_ptr(),
\* size_of_val(&self.key))
hmac_update(self, buffer, stray) ==
    [self EXCEPT !.h = Absorb(self.h, self.len,
                              ReadBytes(buffer, SizeOfVec, stray)),
                 !.len = self.len + SizeOfVec]

RECURSIVE hmac_update_each(_, _, _, _)
\* for m in middle { self.hmac_update(m) }, from the i-th piece on
hmac_update_each(self, middle, i, stray) ==
    IF i > Len(middle) THEN self
    ELSE hmac_update_each(hmac_update(self, middle[i], stray), middle, i + 1, stray)

\* WCHmacKey::hmac_final: wc_HmacFinal writes the digest
hmac_final(self) ==
    [i \in 1..WC_SHA256_DIGEST_SIZE |-> (self.h * i + self.h \div 251) % 256]

\* WCHmacKey::sign_concat: the context as the call leaves it, and the tag
sign_concat(self, first, middle, last, stray) ==
    LET keyed == hmac_init(self, stray)
        fed   == hmac_update(
                    hmac_update_each(hmac_update(keyed, first, stray),
                                     middle, 1, stray),
                    last, stray)
    IN  [self |-> fed, tag |-> hmac_final(fed)]

NoTag == [at |-> 0, first |-> NoBytes, middle |-> << >>, last |-> NoBytes,
          tag |-> NoBytes]

\* no key object: key is the WCHmacKey's Vec, h and len the state of its
\* Hmac struct
HmNone == [live |-> FALSE, key |-> NoBytes, h |-> 0, len |-> 0, n_ops |-> 0,
           out |-> NoTag, prev |-> NoTag]

\* ------------------------------------------------ Curve25519 key exchange
RECURSIVE PowMod23(_, _)
\* u^e in the multiplicative group modulo 23, which stands for the curve
PowMod23(u, e) == IF e = 0 THEN 1 ELSE (u * PowMod23(u, e - 1)) % 23

\* X25519(k, u): the scalar is clamped (its top bit set) before it is used
X25519(k, u) == PowMod23(u, 16 + (k % 16))

\* wc_curve25519_make_key: a private scalar from the RNG and its public
\* point (base point 5), both stored in the one key struct
wc_curve25519_make_key(r) ==
    [k |-> r, p |-> X25519(r, 5), privSet |-> TRUE, pubSet |-> TRUE]

\* wc_curve25519_shared_secret(private_key, public_key): a build that checks
\* the key flags rejects a key that was never set (ECC_BAD_ARG_E), one that
\* does not computes with what the struct holds
wc_curve25519_shared_secret(private_key, public_key, strict) ==
    IF strict /\ ~(private_key.privSet /\ public_key.pubSet)
      THEN [ret |-> -170, out |-> 0]
      ELSE [ret |-> 0, out |-> X25519(private_key.k, public_key.p)]

\* KeyExchange::use_curve25519 with r1, r2 drawn from the RNG: both keys
\* initialised, then make_key run twice on the public key object
use_curve25519(r1, r2) ==
    LET inited  == [k |-> 0, p |-> 0, privSet |-> FALSE, pubSet |-> FALSE]
        public1 == wc_curve25519_make_key(r1)
        public2 == wc_curve25519_make_key(r2)
    IN  [made |-> TRUE, public_key |-> public2, private_key |-> inited]

\* KeyExchange::derive_shared_secret: the secret of the instance's own two
\* key objects; out is one u8
derive_shared_secret(self, strict) ==
    LET s == wc_curve25519_shared_secret(self.private_key, self.public_key, strict)
    IN  IF s.ret # 0 THEN [kind |-> "Panic", out |-> 0]
        ELSE [kind |-> "Ok", out |-> s.out % 256]

KxNone ==
    [who \in {"alice", "bob"} |->
        [made |-> FALSE,
         public_key |-> [k |-> 0, p |-> 0, privSet |-> FALSE, pubSet |-> FALSE],
         private_key |-> [k |-> 0, p |-> 0, privSet |-> FALSE, pubSet |-> FALSE],
         secret |-> [kind |-> "None", out |-> 0]]]

\* ------------------------------------------------------------ ECDSA P-256
\* the work buffer of sign
SigBufLen == 265

\* a DER INTEGER: a leading zero byte when the top bit is set
DerInt(x) == IF x >= 128 THEN <<2, 2, 0, x>> ELSE <<2, 1, x>>

\* wc_ecc_sign_hash: the DER SEQUENCE of r and s (abstract: r from the
\* nonce, s from digest, key and r); its length is what sig_sz is set to
wc_ecc_sign_hash(digest, nonce, key) ==
    LET r    == (nonce * 67) % 256
        body == DerInt(r) \o DerInt((digest + key * r) % 256)
    IN  <<48, Len(body)>> \o body

\* wc_ecc_verify_hash(sig, siglen, digest, key): the SEQUENCE must span the
\* siglen bytes it is given, and s must match
wc_ecc_verify_hash(sig, digest, key) ==
    /\ Len(sig) >= 8
    /\ sig[1] = 48
    /\ sig[2] + 2 = Len(sig)
    /\ LET rlen == sig[4]
           r    == sig[4 + rlen]
       IN  /\ rlen \in {1, 2}
           /\ Slice(sig, 2, 4 + rlen) = DerInt(r)
           /\ Slice(sig, 4 + rlen, Len(sig)) = DerInt((digest + key * r) % 256)

\* EcdsaSigningKeyP256::sign: wc_Sha256Hash of the message, wc_ecc_sign_hash
\* into the zeroed buffer, and sig.to_vec() returned
EcdsaSigningKeyP256_sign(key, message, nonce) ==
    LET digest == Absorb(7, 0, message) % 256
        der    == wc_ecc_sign_hash(digest, nonce, key)
    IN  [kind |-> "Ok", digest |-> digest, sig_sz |-> Len(der),
         sig |-> der \o Zeros(SigBufLen - Len(der))]

SgNone == [key |-> 0, message |-> NoBytes,
           res |-> [kind |-> "None", digest |-> 0, sig_sz |-> 0, sig |-> NoBytes]]

\* ------------------------------------------------- RSA signature verifiers
Verifiers == {"RSA_PSS_SHA256", "RSA_PSS_SHA384", "RSA_PKCS1_SHA256", "RSA_PKCS1_SHA384"}

\* signature_alg_id of each verifier: the padding and hash it declares
signature_alg_id(v) ==
    CASE v = "RSA_PSS_SHA256"   -> [pad |-> "PSS", hash |-> "SHA256"]
      [] v = "RSA_PSS_SHA384"   -> [pad |-> "PSS", hash |-> "SHA384"]
      [] v = "RSA_PKCS1_SHA256" -> [pad |-> "PKCS1", hash |-> "SHA256"]
      [] v = "RSA_PKCS1_SHA384" -> [pad |-> "PKCS1", hash |-> "SHA384"]

\* ALGORITHMS: the verifiers, and the (scheme, verifiers) pairs
ALGORITHMS ==
    [all |-> <<"RSA_PSS_SHA256", "RSA_PSS_SHA384", "RSA_PKCS1_SHA256", "RSA_PKCS1_SHA384">>,
     mapping |-> << <<[pad |-> "PSS", hash |-> "SHA256"], <<"RSA_PSS_SHA256">> >>,
                    <<[pad |-> "PSS", hash |-> "SHA384"], <<"RSA_PSS_SHA384">> >>,
                    <<[pad |-> "PKCS1", hash |-> "SHA256"], <<"RSA_PKCS1_SHA256">> >>,
                    <<[pad |-> "PKCS1", hash |-> "SHA384"], <<"RSA_PKCS1_SHA384">> >> >>]

\* PSS-SHA384 handing the SHA-256 constants to the primitives
VerifierOf_Sha256InPss384(v) ==
    CASE v = "RSA_PSS_SHA256"   -> [fn |-> "wc_RsaPSS_VerifyCheck", hash |-> "SHA256", mgf |-> "SHA256"]
      [] v = "RSA_PSS_SHA384"   -> [fn |-> "wc_RsaPSS_VerifyCheck", hash |-> "SHA256", mgf |-> "SHA256"]
      [] v = "RSA_PKCS1_SHA256" -> [fn |-> "wc_SignatureVerify", hash |-> "SHA256", mgf |-> ""]
      [] v = "RSA_PKCS1_SHA384" -> [fn |-> "wc_SignatureVerify", hash |-> "SHA384", mgf |-> ""]

\* the primitive each verify_signature calls and the constants it hands it
VerifierOf(v) ==
    CASE v = "RSA_PSS_SHA256"   -> [fn |-> "wc_RsaPSS_VerifyCheck", hash |-> "SHA256", mgf |-> "SHA256"]
      [] v = "RSA_PSS_SHA384"   -> [fn |-> "wc_RsaPSS_VerifyCheck", hash |-> "SHA384", mgf |-> "SHA384"]
      [] v = "RSA_PKCS1_SHA256" -> [fn |-> "wc_SignatureVerify", hash |-> "SHA256", mgf |-> ""]
      [] v = "RSA_PKCS1_SHA384" -> [fn |-> "wc_SignatureVerify", hash |-> "SHA384", mgf |-> ""]

\* wc_decode_spki_spk: Err when the DER does not decode, a panic when
\* wc_InitRsaKey fails, Err when wc_RsaPublicKeyDecodeRaw fails.  The
\* lengths handed over are the capacities of n_bytes and e_bytes: with
\* slack the modulus read ends in bytes nobody wrote.
wc_decode_spki_spk(spki_spk, env) ==
    IF ~spki_spk.wellformed THEN [kind |-> "Err", n |-> 0]
    ELSE IF env.init_ret # 0 THEN [kind |-> "Panic", n |-> 0]
    ELSE IF env.raw_ret # 0 THEN [kind |-> "Err", n |-> 0]
    ELSE [kind |-> "Ok",
          n |-> IF env.slack = 0 THEN spki_spk.n ELSE spki_spk.n * 256 + env.stray]

\* wc_RsaPSS_VerifyCheck: the digest length when the signature is a PSS
\* signature of this digest under this key with this hash and MGF,
\* BAD_PADDING_E otherwise
wc_RsaPSS_VerifyCheck(signature, digest, hash, mgf, n) ==
    IF /\ signature.pad = "PSS"
       /\ signature.hash = hash
       /\ mgf = hash
       /\ signature.n = n
       /\ digest = [hash |-> signature.hash, msg |-> signature.msg]
      THEN (IF hash = "SHA256" THEN WC_SHA256_DIGEST_SIZE ELSE WC_SHA384_DIGEST_SIZE)
      ELSE -193

\* wc_SignatureVerify with WC_SIGNATURE_TYPE_RSA_W_ENC: hashes the message
\* itself; 0 when the signature is a PKCS#1 v1.5 signature of it under this
\* key with this hash, SIG_VERIFY_E otherwise
wc_SignatureVerify(hash, message, signature, n) ==
    IF /\ signature.pad = "PKCS1"
       /\ signature.hash = hash
       /\ signature.msg = message
       /\ signature.n = n
      THEN 0
      ELSE -229

\* verify_signature of verifier v; env holds what the engine calls return
verify_signature(v, public_key, message, signature, env) ==
    LET key == wc_decode_spki_spk(public_key, env)
        use == VerifierOf(v)
        no  == [decoded |-> key.kind = "Ok", called |-> FALSE, ret |-> 0]
    IN  IF key.kind # "Ok" THEN [kind |-> key.kind] @@ no
        ELSE IF use.fn = "wc_RsaPSS_VerifyCheck"
          THEN IF env.hash_ret # 0 THEN [kind |-> "Panic"] @@ no
               ELSE LET digest == [hash |-> use.hash, msg |-> message]
                        ret == wc_RsaPSS_VerifyCheck(signature, digest, use.hash, use.mgf, key.n)
                    IN  [kind |-> IF ret >= 0 THEN "Ok" ELSE "Err",
                         decoded |-> TRUE, called |-> TRUE, ret |-> ret]
          ELSE LET ret == wc_SignatureVerify(use.hash, message, signature, key.n)
               IN  [kind |-> IF ret = 0 THEN "Ok" ELSE "Err",
                    decoded |-> TRUE, called |-> TRUE, ret |-> ret]

VfNone == [v |-> "", public_key |-> [wellformed |-> FALSE, n |-> 0],
           message |-> NoBytes,
           signature |-> [pad |-> "", hash |-> "", msg |-> NoBytes, n |-> 0],
           env |-> [init_ret |-> 0, raw_ret |-> 0, hash_ret |-> 0, slack |-> 0, stray |-> 0],
           res |-> [kind |-> "None", decoded |-> FALSE, called |-> FALSE, ret |-> 0]]

\* ------------------------------------------------------------------ state
VARIABLES
    alg,     \* the negotiated suite
    enc,     \* the encrypter instance: its key and IV fields
    dec,     \* the decrypter instance: its key and IV fields
    enc2,    \* a second encrypter, constructed on its own
    sent,    \* the last encrypt call on enc: record, sequence number, result
    sent2,   \* the last encrypt call on enc2
    rcvd,    \* the last decrypt call on dec: inbound record, seq, result
    xk,      \* the last extract_keys call
    native,  \* the native contexts and the foreign call in progress
    sha,     \* SHA-384 hash contexts and the last two digests returned
    hm,      \* an HMAC key object and the last two tags it returned
    kx,      \* two KeyExchange instances and what derive_shared_secret gave
    sg,      \* the last EcdsaSigningKeyP256::sign call
    vf       \* the last verify_signature call

vars == <<alg, enc, dec, enc2, sent, sent2, rcvd, xk, native, sha, hm, kx, sg, vf>>

InitAes ==
    /\ alg = AES128GCM_TLS12
    /\ \E c \in AesConfigs :
          /\ enc = Aes128Gcm_encrypter(c[1], c[2], c[3])
          /\ dec = Aes128Gcm_decrypter(c[1], c[2])

InitChacha12 ==
    /\ alg = CHACHA_TLS12
    /\ \E c \in ChachaConfigs :
          /\ enc = Chacha12_cipher(c[1], c[2])
          /\ dec = Chacha12_cipher(c[1], c[2])

InitChacha13 ==
    /\ alg = CHACHA_TLS13
    /\ \E c \in ChachaConfigs :
          /\ enc = Chacha13_cipher(c[1], c[2])
          /\ dec = Chacha13_cipher(c[1], c[2])

NoCalls ==
    /\ sent = SentNone
    /\ sent2 = SentNone
    /\ rcvd = RcvdNone
    /\ xk = XkNone
    /\ native = NativeNone
    /\ sha = ShaNone
    /\ hm = HmNone
    /\ kx = KxNone
    /\ sg = SgNone
    /\ vf = VfNone

Init ==
    /\ InitAes \/ InitChacha12 \/ InitChacha13
    /\ enc2 = NoInstance
    /\ NoCalls

\* ---------------------------------------------------------------- actions
self_after_encrypt_NonceKept(self, seq) ==
    [self EXCEPT !.iv = Nonce_new(self.iv, seq)]

\* the instance's fields after an encrypt call: encrypt takes &mut self and
\* assigns to none of its fields
self_after_encrypt(self, seq) == self

\* the instance's fields after a decrypt call: none is assigned
self_after_decrypt(self, seq) == self

Encrypt_Aes ==
    /\ rcvd = RcvdNone
    /\ sent2 = SentNone
    /\ alg = AES128GCM_TLS12
    /\ \E m \in PlainMessages, seq \in Seqs, fault \in BOOLEAN :
          /\ sent' = [m |-> m, seq |-> seq, fault |-> fault,
                      res |-> WCTls12Encrypter_encrypt(enc, m, seq, fault)]
          /\ enc' = self_after_encrypt(enc, seq)
    /\ UNCHANGED <<kx, sg, vf, hm, sha, native, alg, dec, enc2, sent2, rcvd, xk>>

Encrypt_Chacha12 ==
    /\ rcvd = RcvdNone
    /\ sent2 = SentNone
    /\ alg = CHACHA_TLS12
    /\ \E m \in PlainMessages, seq \in Seqs, fault \in BOOLEAN :
          /\ sent' = [m |-> m, seq |-> seq, fault |-> fault,
                      res |-> WCTls12Cipher_encrypt(enc, m, seq, fault)]
          /\ enc' = self_after_encrypt(enc, seq)
    /\ UNCHANGED <<kx, sg, vf, hm, sha, native, alg, dec, enc2, sent2, rcvd, xk>>

Encrypt_Chacha13 ==
    /\ rcvd = RcvdNone
    /\ sent2 = SentNone
    /\ alg = CHACHA_TLS13
    /\ \E m \in PlainMessages, seq \in Seqs, fault \in BOOLEAN :
          /\ sent' = [m |-> m, seq |-> seq, fault |-> fault,
                      res |-> WCTls13Cipher_encrypt(enc, m, seq, fault)]
          /\ enc' = self_after_encrypt(enc, seq)
    /\ UNCHANGED <<kx, sg, vf, hm, sha, native, alg, dec, enc2, sent2, rcvd, xk>>

\* the record on the wire after the last encrypt call
Wire == [typ |-> sent.res.typ, version |-> sent.res.version,
         payload |-> sent.res.payload]

Decrypt_Aes ==
    /\ rcvd = RcvdNone
    /\ alg = AES128GCM_TLS12
    /\ sent.res.kind = "Ok"
    /\ \E i \in Inbound(alg, Wire, sent.seq), checked \in BOOLEAN, writes \in BOOLEAN :
          /\ rcvd' = [m |-> i.m, seq |-> i.seq, how |-> i.how,
                      res |-> WCTls12Decrypter_decrypt(dec, i.m, i.seq, checked, writes)]
          /\ dec' = self_after_decrypt(dec, i.seq)
    /\ UNCHANGED <<kx, sg, vf, hm, sha, native, alg, enc, enc2, sent, sent2, xk>>

Decrypt_Chacha12 ==
    /\ rcvd = RcvdNone
    /\ alg = CHACHA_TLS12
    /\ sent.res.kind = "Ok"
    /\ \E i \in Inbound(alg, Wire, sent.seq), checked \in BOOLEAN, writes \in BOOLEAN :
          /\ rcvd' = [m |-> i.m, seq |-> i.seq, how |-> i.how,
                      res |-> WCTls12Cipher_decrypt(dec, i.m, i.seq, checked, writes)]
          /\ dec' = self_after_decrypt(dec, i.seq)
    /\ UNCHANGED <<kx, sg, vf, hm, sha, native, alg, enc, enc2, sent, sent2, xk>>

Decrypt_Chacha13 ==
    /\ rcvd = RcvdNone
    /\ alg = CHACHA_TLS13
    /\ \E i \in (IF sent.res.kind = "Ok" THEN Inbound(alg, Wire, sent.seq) ELSE {})
                  \cup InboundPeer13(dec),
          checked \in BOOLEAN, writes \in BOOLEAN :
          /\ rcvd' = [m |-> i.m, seq |-> i.seq, how |-> i.how,
                      res |-> WCTls13Cipher_decrypt(dec, i.m, i.seq, checked, writes)]
          /\ dec' = self_after_decrypt(dec, i.seq)
    /\ UNCHANGED <<kx, sg, vf, hm, sha, native, alg, enc, enc2, sent, sent2, xk>>

\* the connection layer is done with the inbound record and its result
Release ==
    /\ rcvd # RcvdNone
    /\ rcvd' = RcvdNone
    /\ UNCHANGED <<kx, sg, vf, hm, sha, native, alg, enc, dec, enc2, sent, sent2, xk>>

Next ==
    \/ Release
    \/ Encrypt_Aes
    \/ Encrypt_Chacha12
    \/ Encrypt_Chacha13
    \/ Decrypt_Aes
    \/ Decrypt_Chacha12
    \/ Decrypt_Chacha13

Spec == Init /\ [][Next]_vars

\* ------------------------------------------- two encrypters, one key and IV
\* a second encrypter is constructed on its own from the same key, IV and
\* salt, and is run once the first has produced a record
InitTwo ==
    /\ \/ /\ alg = AES128GCM_TLS12
          /\ \E c \in AesConfigs :
                /\ enc = Aes128Gcm_encrypter(c[1], c[2], c[3])
                /\ enc2 = Aes128Gcm_encrypter(c[1], c[2], c[3])
                /\ dec = Aes128Gcm_decrypter(c[1], c[2])
       \/ /\ alg = CHACHA_TLS12
          /\ \E c \in ChachaConfigs :
                /\ enc = Chacha12_cipher(c[1], c[2])
                /\ enc2 = Chacha12_cipher(c[1], c[2])
                /\ dec = Chacha12_cipher(c[1], c[2])
       \/ /\ alg = CHACHA_TLS13
          /\ \E c \in ChachaConfigs :
                /\ enc = Chacha13_cipher(c[1], c[2])
                /\ enc2 = Chacha13_cipher(c[1], c[2])
                /\ dec = Chacha13_cipher(c[1], c[2])
    /\ NoCalls

Encrypt2_Aes ==
    /\ sent2 = SentNone
    /\ sent.res.kind = "Ok"
    /\ alg = AES128GCM_TLS12
    /\ \E m \in PlainMessages, seq \in Seqs, fault \in BOOLEAN :
          /\ sent2' = [m |-> m, seq |-> seq, fault |-> fault,
                       res |-> WCTls12Encrypter_encrypt(enc2, m, seq, fault)]
          /\ enc2' = self_after_encrypt(enc2, seq)
    /\ UNCHANGED <<kx, sg, vf, hm, sha, native, alg, enc, dec, sent, rcvd, xk>>

Encrypt2_Chacha12 ==
    /\ sent2 = SentNone
    /\ sent.res.kind = "Ok"
    /\ alg = CHACHA_TLS12
    /\ \E m \in PlainMessages, seq \in Seqs, fault \in BOOLEAN :
          /\ sent2' = [m |-> m, seq |-> seq, fault |-> fault,
                       res |-> WCTls12Cipher_encrypt(enc2, m, seq, fault)]
          /\ enc2' = self_after_encrypt(enc2, seq)
    /\ UNCHANGED <<kx, sg, vf, hm, sha, native, alg, enc, dec, sent, rcvd, xk>>

Encrypt2_Chacha13 ==
    /\ sent2 = SentNone
    /\ sent.res.kind = "Ok"
    /\ alg = CHACHA_TLS13
    /\ \E m \in PlainMessages, seq \in Seqs, fault \in BOOLEAN :
          /\ sent2' = [m |-> m, seq |-> seq, fault |-> fault,
                       res |-> WCTls13Cipher_encrypt(enc2, m, seq, fault)]
          /\ enc2' = self_after_encrypt(enc2, seq)
    /\ UNCHANGED <<kx, sg, vf, hm, sha, native, alg, enc, dec, sent, rcvd, xk>>

NextTwo ==
    \/ Encrypt_Aes
    \/ Encrypt_Chacha12
    \/ Encrypt_Chacha13
    \/ Encrypt2_Aes
    \/ Encrypt2_Chacha12
    \/ Encrypt2_Chacha13

SpecTwo == InitTwo /\ [][NextTwo]_vars

\* ---------------------------------------------------- extract_keys calls
XkKeys == {Key16a, Key16b, Key32a}

XkIvs == {Iv4a, Iv4b, Iv12a, Iv12b}

XkExplicits == {NoBytes, Salt8a, Salt8b, Iv12b}

ExtractKeys_Aes ==
    /\ alg = AES128GCM_TLS12
    /\ \E key \in XkKeys, iv \in XkIvs, explicit \in XkExplicits :
          xk' = [key |-> key, iv |-> iv, explicit |-> explicit,
                 res |-> Aes128Gcm_extract_keys(key, iv, explicit)]
    /\ UNCHANGED <<kx, sg, vf, hm, sha, native, alg, enc, dec, enc2, sent, sent2, rcvd>>

ExtractKeys_Chacha12 ==
    /\ alg = CHACHA_TLS12
    /\ \E key \in XkKeys, iv \in XkIvs, explicit \in XkExplicits, checked \in BOOLEAN :
          xk' = [key |-> key, iv |-> iv, explicit |-> explicit,
                 res |-> Chacha12_extract_keys(key, iv, explicit, checked)]
    /\ UNCHANGED <<kx, sg, vf, hm, sha, native, alg, enc, dec, enc2, sent, sent2, rcvd>>

\* the Iv type holds 12 bytes
ExtractKeys_Chacha13 ==
    /\ alg = CHACHA_TLS13
    /\ \E key \in XkKeys, iv \in {v \in XkIvs : Len(v) = NONCE_LEN} :
          xk' = [key |-> key, iv |-> iv, explicit |-> NoBytes,
                 res |-> Chacha13_extract_keys(key, iv)]
    /\ UNCHANGED <<kx, sg, vf, hm, sha, native, alg, enc, dec, enc2, sent, sent2, rcvd>>

NextKeys ==
    \/ ExtractKeys_Aes
    \/ ExtractKeys_Chacha12
    \/ ExtractKeys_Chacha13

SpecKeys == Init /\ [][NextKeys]_vars

\* ------------------------------------------- operations on native contexts
\* the structs in gone lose their owner, those in freed their storage
OwnersGone(ctx, gone, freed) ==
    [c \in CtxNames |->
        [ctx[c] EXCEPT
           !.owner = IF c \in gone /\ ctx[c].owner = "live"
                       THEN "gone" ELSE ctx[c].owner,
           !.alloc = ctx[c].alloc /\ c \notin freed]]

\* the operation is entered: what it constructs is not there yet, the object
\* it is called on is; its locals and the structs of the object it constructs
\* are zeroed
Begin(o) ==
    /\ native.op = ""
    /\ native.n_ops < MaxNativeOps
    /\ \A c \in MadeBy(o) : native.ctx[c].owner # "live"
    /\ \A c \in UsedBy(o) : native.ctx[c].owner = "live"
    /\ \E k \in (IF o = "sign_concat" THEN 0..MaxMiddle ELSE {0}) :
          native' = [op |-> o, k |-> k, pc |-> 1, n_ops |-> native.n_ops + 1,
                     last |-> NoCall,
                     ctx |-> [c \in CtxNames |->
                                IF c \in LocalsOf(o) \cup MadeBy(o)
                                  THEN CtxZeroed("live") ELSE native.ctx[c]]]

\* the next engine call of the operation: it returns 0, or it fails and the
\* operation panics, unwinding past its locals and what it was constructing;
\* wc_HmacFree returns nothing
Step(o) ==
    /\ native.op = o
    /\ native.pc <= Len(CallsOf(o, native.k))
    /\ LET call == CallsOf(o, native.k)[native.pc]
       IN  \E ok \in (IF call.fn = "wc_HmacFree" THEN {TRUE} ELSE BOOLEAN) :
              native' =
                IF ok
                  THEN [native EXCEPT
                          !.pc = native.pc + 1,
                          !.last = [fn |-> call.fn, args |-> call.args, ok |-> TRUE],
                          !.ctx = [c \in CtxNames |-> Effect(call, c, native.ctx[c])]]
                  ELSE [native EXCEPT
                          !.op = "",
                          !.pc = 0,
                          !.last = [fn |-> call.fn, args |-> call.args, ok |-> FALSE],
                          !.ctx = OwnersGone(native.ctx,
                                             LocalsOf(o) \cup MadeBy(o),
                                             StackOf(o) \cup MadeBy(o))]

\* the operation returns: its locals go out of scope, and so does the object
\* a drop or a consuming finish was called on
Return(o) ==
    /\ native.op = o
    /\ native.pc > Len(CallsOf(o, native.k))
    /\ native' = [native EXCEPT !.op = "", !.pc = 0,
                                !.ctx = OwnersGone(native.ctx, EndedBy(o),
                                                   StackOf(o) \cup EndedBy(o))]

RunOp(o) == Begin(o) \/ Step(o) \/ Return(o)

Native_AesEncrypt ==
    /\ RunOp("aes_encrypt")
    /\ UNCHANGED <<kx, sg, vf, hm, sha, alg, enc, dec, enc2, sent, sent2, rcvd, xk>>

Native_AesDecrypt ==
    /\ RunOp("aes_decrypt")
    /\ UNCHANGED <<kx, sg, vf, hm, sha, alg, enc, dec, enc2, sent, sent2, rcvd, xk>>

Native_EcdsaSign ==
    /\ RunOp("ecdsa_sign")
    /\ UNCHANGED <<kx, sg, vf, hm, sha, alg, enc, dec, enc2, sent, sent2, rcvd, xk>>

Native_EcdsaTryFrom ==
    /\ RunOp("ecdsa_try_from")
    /\ UNCHANGED <<kx, sg, vf, hm, sha, alg, enc, dec, enc2, sent, sent2, rcvd, xk>>

Native_UseCurve25519 ==
    /\ RunOp("use_curve25519")
    /\ UNCHANGED <<kx, sg, vf, hm, sha, alg, enc, dec, enc2, sent, sent2, rcvd, xk>>

Native_DeriveSharedSecret ==
    /\ RunOp("derive_shared_secret")
    /\ UNCHANGED <<kx, sg, vf, hm, sha, alg, enc, dec, enc2, sent, sent2, rcvd, xk>>

Native_HmacWithKey ==
    /\ RunOp("hmac_with_key")
    /\ UNCHANGED <<kx, sg, vf, hm, sha, alg, enc, dec, enc2, sent, sent2, rcvd, xk>>

Native_SignConcat ==
    /\ RunOp("sign_concat")
    /\ UNCHANGED <<kx, sg, vf, hm, sha, alg, enc, dec, enc2, sent, sent2, rcvd, xk>>

Native_HmacDrop ==
    /\ RunOp("hmac_drop")
    /\ UNCHANGED <<kx, sg, vf, hm, sha, alg, enc, dec, enc2, sent, sent2, rcvd, xk>>

Native_Sha384Start ==
    /\ RunOp("sha384_start")
    /\ UNCHANGED <<kx, sg, vf, hm, sha, alg, enc, dec, enc2, sent, sent2, rcvd, xk>>

Native_Sha384Update ==
    /\ RunOp("sha384_update")
    /\ UNCHANGED <<kx, sg, vf, hm, sha, alg, enc, dec, enc2, sent, sent2, rcvd, xk>>

Native_Sha384Finish ==
    /\ RunOp("sha384_finish")
    /\ UNCHANGED <<kx, sg, vf, hm, sha, alg, enc, dec, enc2, sent, sent2, rcvd, xk>>

NextNative ==
    \/ Native_AesEncrypt
    \/ Native_AesDecrypt
    \/ Native_EcdsaSign
    \/ Native_EcdsaTryFrom
    \/ Native_UseCurve25519
    \/ Native_DeriveSharedSecret
    \/ Native_HmacWithKey
    \/ Native_SignConcat
    \/ Native_HmacDrop
    \/ Native_Sha384Start
    \/ Native_Sha384Update
    \/ Native_Sha384Finish

SpecNative == Init /\ [][NextNative]_vars

\* ------------------------------------------------- SHA-384 context calls
\* no cipher instance is constructed
InitQuiet ==
    /\ alg = AES128GCM_TLS12
    /\ enc = NoInstance
    /\ dec = NoInstance
    /\ enc2 = NoInstance
    /\ NoCalls

\* a digest is returned to the caller
Returned(op, digest, seen) ==
    [sha EXCEPT !.n_ops = sha.n_ops + 1, !.prev = sha.out,
                !.out = [op |-> op, digest |-> digest, seen |-> seen,
                         at |-> sha.n_ops + 1]]

Sha_start ==
    /\ sha.n_ops < MaxHashOps
    /\ ~sha.ctx["a"].live
    /\ sha' = [sha EXCEPT !.n_ops = sha.n_ops + 1,
                          !.ctx["a"] = [live |-> TRUE, seen |-> << >>,
                                        hasher |-> WCSha384_start]]
    /\ UNCHANGED <<kx, sg, vf, hm, native, alg, enc, dec, enc2, sent, sent2, rcvd, xk>>

Sha_update ==
    /\ sha.n_ops < MaxHashOps
    /\ \E c \in {"a", "b"}, data \in HashChunks :
          /\ sha.ctx[c].live
          /\ Len(sha.ctx[c].seen) < MaxChunks
          /\ sha' = [sha EXCEPT
                       !.n_ops = sha.n_ops + 1,
                       !.ctx[c] = [live |-> TRUE,
                                   seen |-> Append(sha.ctx[c].seen, data),
                                   hasher |-> wchasher_update(sha.ctx[c].hasher, data)]]
    /\ UNCHANGED <<kx, sg, vf, hm, native, alg, enc, dec, enc2, sent, sent2, rcvd, xk>>

Sha_fork_finish ==
    /\ sha.n_ops < MaxHashOps
    /\ \E c \in {"a", "b"} :
          /\ sha.ctx[c].live
          /\ LET f == fork_finish(sha.ctx[c].hasher)
                 r == Returned("fork_finish", f.out, sha.ctx[c].seen)
             IN  sha' = [r EXCEPT !.ctx[c] = [live |-> TRUE,
                                              seen |-> sha.ctx[c].seen,
                                              hasher |-> f.self]]
    /\ UNCHANGED <<kx, sg, vf, hm, native, alg, enc, dec, enc2, sent, sent2, rcvd, xk>>

\* WCSha384Context::fork: a new boxed context holding a clone
Sha_fork ==
    /\ sha.n_ops < MaxHashOps
    /\ sha.ctx["a"].live
    /\ ~sha.ctx["b"].live
    /\ sha' = [sha EXCEPT !.n_ops = sha.n_ops + 1,
                          !.ctx["b"] = [live |-> TRUE, seen |-> sha.ctx["a"].seen,
                                        hasher |-> WCHasher384_clone(sha.ctx["a"].hasher)]]
    /\ UNCHANGED <<kx, sg, vf, hm, native, alg, enc, dec, enc2, sent, sent2, rcvd, xk>>

\* WCSha384Context::finish: consumes the box
Sha_finish ==
    /\ sha.n_ops < MaxHashOps
    /\ \E c \in {"a", "b"} :
          /\ sha.ctx[c].live
          /\ LET r == Returned("finish", wchasher_final(sha.ctx[c].hasher).hash,
                               sha.ctx[c].seen)
             IN  sha' = [r EXCEPT !.ctx[c] = NoCtx]
    /\ UNCHANGED <<kx, sg, vf, hm, native, alg, enc, dec, enc2, sent, sent2, rcvd, xk>>

Sha_hash ==
    /\ sha.n_ops < MaxHashOps
    /\ \E data \in HashChunks :
          sha' = Returned("hash", WCSha384_hash(data), <<data>>)
    /\ UNCHANGED <<kx, sg, vf, hm, native, alg, enc, dec, enc2, sent, sent2, rcvd, xk>>

NextHash ==
    \/ Sha_start
    \/ Sha_update
    \/ Sha_fork_finish
    \/ Sha_fork
    \/ Sha_finish
    \/ Sha_hash

SpecHash == InitQuiet /\ [][NextHash]_vars

\* ------------------------------------------------------- HMAC key calls
\* most sign_concat calls on the key object
MaxSigns == 2

\* WCSha256Hmac::with_key: the key bytes are copied, the Hmac struct zeroed
Hmac_with_key ==
    /\ ~hm.live
    /\ \E key \in HmacKeys :
          hm' = [hm EXCEPT !.live = TRUE, !.key = key]
    /\ UNCHANGED <<kx, sg, vf, sha, native, alg, enc, dec, enc2, sent, sent2, rcvd, xk>>

Hmac_sign_concat ==
    /\ hm.live
    /\ hm.n_ops < MaxSigns
    /\ \E first \in HmacFirsts, last \in HmacLasts, k \in 0..MaxMiddle,
          stray \in StrayBytes :
          \E middle \in [1..k -> HmacMiddles] :
              LET r == sign_concat([key |-> hm.key, h |-> hm.h, len |-> hm.len],
                                   first, middle, last, stray)
              IN  hm' = [hm EXCEPT
                           !.h = r.self.h,
                           !.len = r.self.len,
                           !.n_ops = hm.n_ops + 1,
                           !.prev = hm.out,
                           !.out = [at |-> hm.n_ops + 1, first |-> first,
                                    middle |-> middle, last |-> last,
                                    tag |-> r.tag]]
    /\ UNCHANGED <<kx, sg, vf, sha, native, alg, enc, dec, enc2, sent, sent2, rcvd, xk>>

NextHmac ==
    \/ Hmac_with_key
    \/ Hmac_sign_concat

SpecHmac == InitQuiet /\ [][NextHmac]_vars

\* ------------------------------------------------- public-key operations
\* private scalars the RNG may give
Scalars == {1, 2, 3, 4}

Kx_use_curve25519 ==
    /\ \E who \in {"alice", "bob"}, r1 \in Scalars, r2 \in Scalars :
          /\ ~kx[who].made
          /\ kx' = [kx EXCEPT ![who] =
                      use_curve25519(r1, r2) @@ [secret |-> kx[who].secret]]
    /\ UNCHANGED <<sg, vf, hm, sha, native, alg, enc, dec, enc2, sent, sent2, rcvd, xk>>

Kx_derive_shared_secret ==
    /\ \E who \in {"alice", "bob"}, strict \in BOOLEAN :
          /\ kx[who].made
          /\ kx[who].secret.kind = "None"
          /\ kx' = [kx EXCEPT ![who].secret =
                      derive_shared_secret(kx[who], strict)]
    /\ UNCHANGED <<sg, vf, hm, sha, native, alg, enc, dec, enc2, sent, sent2, rcvd, xk>>

NextKx ==
    \/ Kx_use_curve25519
    \/ Kx_derive_shared_secret

SpecKx == InitQuiet /\ [][NextKx]_vars

\* ECC private keys, messages and the nonces the RNG may give
EccKeys == {3, 5, 9}

Messages == { << >>, <<109>>, <<109, 115, 103>>, <<0, 255>>, <<109, 115, 104>> }

EcdsaNonces == {1, 2, 3, 5, 7, 11, 13}

Sg_sign ==
    /\ \E key \in EccKeys, message \in Messages, nonce \in EcdsaNonces :
          sg' = [key |-> key, message |-> message,
                 res |-> EcdsaSigningKeyP256_sign(key, message, nonce)]
    /\ UNCHANGED <<kx, vf, hm, sha, native, alg, enc, dec, enc2, sent, sent2, rcvd, xk>>

NextSg == Sg_sign

SpecSg == InitQuiet /\ [][NextSg]_vars

\* subjectPublicKey inputs: two RSA moduli and bytes that are not DER
PublicKeys == { [wellformed |-> TRUE, n |-> 35], [wellformed |-> TRUE, n |-> 77],
                [wellformed |-> FALSE, n |-> 0] }

VfMessages == { <<109>>, <<109, 115, 103>> }

\* signatures: made with any padding and hash, under the first modulus,
\* over either message
Signatures ==
    [pad : {"PSS", "PKCS1"}, hash : {"SHA256", "SHA384"}, msg : VfMessages, n : {35}]

\* what the engine calls return: all well, one call failing, or slack in
\* the byte vectors of the key
Envs ==
    LET ok == [init_ret |-> 0, raw_ret |-> 0, hash_ret |-> 0, slack |-> 0, stray |-> 0]
    IN  { ok, [ok EXCEPT !.init_ret = -125], [ok EXCEPT !.raw_ret = -140],
          [ok EXCEPT !.hash_ret = -173] }
        \cup { [ok EXCEPT !.slack = 1, !.stray = b] : b \in StrayBytes }

Vf_verify_signature ==
    /\ \E v \in Verifiers, public_key \in PublicKeys, message \in VfMessages,
          signature \in Signatures, env \in Envs :
          vf' = [v |-> v, public_key |-> public_key, message |-> message,
                 signature |-> signature, env |-> env,
                 res |-> verify_signature(v, public_key, message, signature, env)]
    /\ UNCHANGED <<kx, sg, hm, sha, native, alg, enc, dec, enc2, sent, sent2, rcvd, xk>>

NextVf == Vf_verify_signature

SpecVf == InitQuiet /\ [][NextVf]_vars

\* ------------------------------------------------------------ properties
\* the last decrypt call was handed the sent record as it is, under its seq
Delivered == rcvd.how = "intact" /\ rcvd.res.kind # "None"

\* encrypted_payload_len of the negotiated suite
encrypted_payload_len(payload_len) ==
    IF alg = AES128GCM_TLS12 THEN Aes_encrypted_payload_len(payload_len)
    ELSE IF alg = CHACHA_TLS12 THEN Chacha12_encrypted_payload_len(payload_len)
    ELSE Chacha13_encrypted_payload_len(payload_len)

TamperKinds ==
    {"flip_nonce", "flip_ct", "flip_tag", "flip_typ", "flip_version",
     "cut", "other_seq"}

C2_TamperIsDecryptError ==
    rcvd.how \in TamperKinds =>
        (rcvd.res.kind = "Err" /\ rcvd.res.detail = "DecryptError")

\* C3: under one key and IV the nonce handed to the primitive is 12 bytes and
\* a function of the sequence number alone, and two different sequence
\* numbers never give the same nonce.
C3_NonceUnique ==
    (sent.res.kind = "Ok" /\ sent2.res.kind = "Ok" /\ enc = enc2) =>
        /\ Len(sent.res.nonce) = 12
        /\ (sent.seq = sent2.seq) <=> (sent.res.nonce = sent2.res.nonce)

C3_Witness ==
    /\ sent.res.kind = "Ok"
    /\ sent2.res.kind = "Ok"
    /\ enc = enc2
    /\ sent.seq = <<0, 0, 0, 1>>
    /\ sent2.seq = <<32768, 0, 0, 1>>
    /\ sent.m = sent2.m
    /\ sent.res.nonce # sent2.res.nonce

\* C4: encrypted_payload_len(n) is the length of the payload encrypt produces
\* for an n-byte plaintext, which is the encoded record less its 5-byte
\* header; encrypt adds 24 bytes (AES-GCM TLS 1.2), 16 (ChaCha20 TLS 1.2) or
\* 17 (ChaCha20 TLS 1.3), and writes no more than the capacity it reserved.
C4_ExpansionExact ==
    sent.res.kind = "Ok" =>
        LET n == Len(sent.m.payload)
            L == Len(sent.res.payload)
        IN  /\ encrypted_payload_len(n) = L
            /\ Len(Encode(Wire)) - 5 = L
            /\ L - n = (IF alg = AES128GCM_TLS12 THEN 24
                        ELSE IF alg = CHACHA_TLS12 THEN 16 ELSE 17)
            /\ L <= sent.res.cap

C4_Witness ==
    /\ sent.res.kind = "Ok"
    /\ alg = AES128GCM_TLS12
    /\ Len(sent.m.payload) = 0
    /\ Len(sent.res.payload) = 24

\* C5: for ChaCha20-Poly1305 TLS 1.3, decrypting the record encrypt produced
\* for content type X (alert, handshake or application data) gives a plain
\* record of content type X whose payload is the original payload, without
\* the appended type byte.
C5_InnerTypeRecovered ==
    (Delivered /\ alg = CHACHA_TLS13) =>
        /\ sent.res.typ = ApplicationData
        /\ rcvd.res.kind = "Ok"
        /\ rcvd.res.typ \in ContentTypes
        /\ rcvd.res.typ = sent.m.typ
        /\ Len(rcvd.res.payload) = Len(sent.m.payload)
        /\ rcvd.res.payload = SubSeq(rcvd.res.buf, 1, Len(sent.m.payload))

C5_Witness ==
    /\ Delivered
    /\ alg = CHACHA_TLS13
    /\ sent.m.typ = 21
    /\ rcvd.res.typ = 21
    /\ sent.m.payload = <<65>>

\* C6: two AES-128-GCM TLS 1.2 encrypters constructed on their own from the
\* same key, IV and salt give byte-identical wire records for the same
\* record and sequence number, and the all-zero key, IV and salt with
\* sequence 0 and the ApplicationData record "hello" give a 34-byte record.
Wire2 == [typ |-> sent2.res.typ, version |-> sent2.res.version,
          payload |-> sent2.res.payload]

ZeroScenario(e, s) ==
    /\ e.key = Zeros(16)
    /\ e.iv = Zeros(12)
    /\ s.res.kind = "Ok"
    /\ s.seq = <<0, 0, 0, 0>>
    /\ s.m = [typ |-> ApplicationData, version |-> TLSv1_2, payload |-> Hello]

C7_BufferKeptOnFailure ==
    rcvd.res.kind \in {"Err", "Panic"} =>
        /\ rcvd.res.buf = rcvd.m.payload
        /\ rcvd.res.blen = Len(rcvd.m.payload)

\* C8: decrypt of a record whose payload is shorter than the cipher's minimum
\* returns an error value; it does not panic.
C8_ShortIsError ==
    rcvd.how = "short" => rcvd.res.kind = "Err"

\* C9: what the caller observes for a record with a bad tag and for a record
\* that is too short is the same generic decrypt error, with no detail that
\* tells the two apart.
Observed(res) == <<res.kind, res.detail>>

C9_NoOracle ==
    rcvd.how \in {"flip_tag", "short"} =>
        Observed(rcvd.res) = <<"Err", "DecryptError">>

\* C10: extract_keys on inputs of valid length succeeds with the given key
\* and the full 12-byte IV: implicit || explicit for AES-128-GCM TLS 1.2, the
\* supplied IV for ChaCha20-Poly1305; it fails only on a malformed length.
ValidKeyLengths ==
    IF alg = AES128GCM_TLS12
      THEN /\ Len(xk.iv) = Aes128Gcm_key_block_shape.fixed_iv_len
           /\ Len(xk.explicit) = Aes128Gcm_key_block_shape.explicit_nonce_len
      ELSE Len(xk.iv) = Chacha12_key_block_shape.fixed_iv_len

C10_ExtractKeys ==
    xk.res.kind # "None" =>
        /\ ValidKeyLengths =>
              /\ xk.res.kind = "Ok"
              /\ xk.res.key = xk.key
              /\ xk.res.iv = (IF alg = AES128GCM_TLS12
                              THEN xk.iv \o xk.explicit ELSE xk.iv)
        /\ xk.res.kind = "Panic" => ~ValidKeyLengths

\* an encrypt call on enc returned a record
Sealed(a) == alg = a /\ sent.res.kind = "Ok"

\* the 8 bytes the AES-GCM encrypter wrote in the clear before the ciphertext
ExplicitPrefix == Slice(sent.res.payload, 0, GCM_NONCE_LENGTH - 4)

\* the 8 explicit bytes the encrypter was constructed with
EncSalt == Slice(enc.iv, GCM_NONCE_LENGTH - 8, GCM_NONCE_LENGTH)

\* C11 as stated: for every salt and every seq, the 8 bytes AES-GCM encrypt
\* writes in the clear before the ciphertext are seq as 8 big-endian bytes,
\* and the nonce given to the primitive is the 4-byte fixed IV followed by
\* those 8 bytes.
C11_ExplicitNonceIsSeq ==
    Sealed(AES128GCM_TLS12) =>
        /\ ExplicitPrefix = put_u64(sent.seq)
        /\ sent.res.nonce = Slice(enc.iv, 0, GCM_NONCE_LENGTH - 8) \o ExplicitPrefix

\* C11 amended: the 8 bytes written in the clear are the encrypter's 8-byte
\* salt xored with seq as 8 big-endian bytes (seq itself exactly when the
\* salt is all zero), and the nonce given to the primitive is the 4-byte
\* fixed IV followed by those 8 bytes.
C11_ExplicitNonceIsSaltXorSeq ==
    Sealed(AES128GCM_TLS12) =>
        /\ Len(ExplicitPrefix) = 8
        /\ \A i \in 1..8 :
              ExplicitPrefix[i] = Xor8(EncSalt[i], put_u64(sent.seq)[i])
        /\ (ExplicitPrefix = put_u64(sent.seq)) <=> (EncSalt = Zeros(8))
        /\ sent.res.nonce = Slice(enc.iv, 0, GCM_NONCE_LENGTH - 8) \o ExplicitPrefix

C11_Witness ==
    /\ Sealed(AES128GCM_TLS12)
    /\ EncSalt = Salt8b
    /\ sent.seq = <<32768, 0, 0, 1>>
    /\ ExplicitPrefix = Zeros(8)

\* the 13 bytes seq || type || version || length of a TLS 1.2 AAD
Tls12AadLayout(seq, typ, version, n) ==
    put_u64(seq) \o <<typ>> \o put_u16(version) \o put_u16(n)

\* the AAD the TLS 1.2 decrypter of the suite builds for the inbound record
Tls12DecryptAad ==
    IF alg = AES128GCM_TLS12 THEN WCTls12Decrypter_aad(rcvd.m, rcvd.seq)
    ELSE WCTls12Cipher_decrypt_aad(rcvd.m, rcvd.seq)

\* C12: for the two TLS 1.2 ciphers the AAD on encrypt is the 13 bytes
\* seq || content type || version || plaintext length; on decrypt the length
\* is the received payload length less the expansion (24 or 16), so decrypt
\* of the record encrypt produced, under the same seq, builds the same AAD.
C12_Tls12Aad ==
    (alg # CHACHA_TLS13 /\ sent.res.kind = "Ok") =>
        /\ Len(sent.res.aad) = 13
        /\ sent.res.aad = Tls12AadLayout(sent.seq, sent.m.typ, sent.m.version,
                                         Len(sent.m.payload))
        /\ Delivered =>
              /\ Tls12DecryptAad = sent.res.aad
              /\ Tls12DecryptAad =
                    Tls12AadLayout(rcvd.seq, rcvd.m.typ, rcvd.m.version,
                        Len(rcvd.m.payload)
                          - (IF alg = AES128GCM_TLS12 THEN 24 ELSE 16))

C12_Witness ==
    /\ Sealed(AES128GCM_TLS12)
    /\ Delivered
    /\ sent.m.payload = Hello
    /\ Len(rcvd.m.payload) = 29
    /\ Tls12DecryptAad = put_u64(sent.seq) \o <<sent.m.typ, 3, 3, 0, 5>>

\* C13: for ChaCha20-Poly1305 TLS 1.3 the AAD on encrypt is the 5-byte outer
\* header of the emitted record: 0x17, 0x0303 and the full payload length
\* n + 1 + 16, whatever the inner content type; on decrypt the AAD length is
\* the received payload length, so both agree for an untampered record.
C13_Tls13AadIsHeader ==
    Sealed(CHACHA_TLS13) =>
        /\ sent.res.aad = SubSeq(Encode(Wire), 1, 5)
        /\ sent.res.aad =
              <<23, 3, 3>> \o put_u16(Len(sent.m.payload) + 1 + 16)
        /\ Delivered =>
              /\ WCTls13Cipher_decrypt_aad(rcvd.m) = sent.res.aad
              /\ WCTls13Cipher_decrypt_aad(rcvd.m)
                    = <<23, 3, 3>> \o put_u16(Len(rcvd.m.payload))

C13_Witness ==
    /\ Sealed(CHACHA_TLS13)
    /\ Delivered
    /\ sent.m.typ = 22
    /\ sent.m.payload = Hello
    /\ sent.res.aad = <<23, 3, 3, 0, 22>>

\* C14: the payload AES-GCM encrypt produces for an n-byte plaintext is the
\* 8-byte explicit nonce, then the n bytes of ciphertext of exactly the n
\* plaintext bytes, then the 16-byte tag; the outer content type and version
\* are the plaintext record's.
C14_AesRecordLayout ==
    Sealed(AES128GCM_TLS12) =>
        LET n == Len(sent.m.payload)
            p == sent.res.payload
            e == wc_AesGcmEncrypt(enc.key, sent.m.payload, sent.res.nonce,
                                  sent.res.aad, FALSE)
        IN  /\ Len(p) = 8 + n + 16
            /\ Slice(p, 0, 8) = Slice(sent.res.nonce, 4, 12)
            /\ Slice(p, 8, 8 + n) = e.out
            /\ Slice(p, 8 + n, 8 + n + 16) = e.tag
            /\ sent.res.typ = sent.m.typ
            /\ sent.res.version = sent.m.version

C14_Witness ==
    /\ Sealed(AES128GCM_TLS12)
    /\ sent.m.payload = Hello
    /\ sent.m.typ = 22
    /\ Len(sent.res.payload) = 29
    /\ Slice(sent.res.payload, 8, 13) # Hello

\* what the AES-GCM primitive recovers from bytes 8..L-16 of the inbound
\* payload, under the nonce implicit IV || payload[..8]
AesRecovered ==
    LET pl == rcvd.m.payload
        L  == Len(pl)
    IN  wc_AesGcmDecrypt(dec.key, Slice(pl, 8, L - 16),
                         dec.iv \o Slice(pl, 0, 8), Slice(pl, L - 16, L),
                         WCTls12Decrypter_aad(rcvd.m, rcvd.seq))

\* C15: when AES-GCM decrypt authenticates an inbound payload of length L,
\* L >= 24 and the plain record it returns lies in the inbound buffer at
\* offset 0, is L - 24 bytes long and is the plaintext recovered from payload
\* bytes 8..L-16, with neither the explicit nonce nor the tag in it.
C15_AesDecryptResult ==
    (alg = AES128GCM_TLS12 /\ rcvd.res.kind = "Ok") =>
        LET L == Len(rcvd.m.payload)
        IN  /\ L >= 24
            /\ AesRecovered.ret = 0
            /\ Len(rcvd.res.buf) = L
            /\ Len(rcvd.res.payload) = L - 24
            /\ rcvd.res.payload = Slice(rcvd.res.buf, 0, L - 24)
            /\ rcvd.res.payload = AesRecovered.out
            /\ rcvd.res.typ = rcvd.m.typ
            /\ rcvd.res.version = rcvd.m.version

C15_Witness ==
    /\ alg = AES128GCM_TLS12
    /\ rcvd.res.kind = "Ok"
    /\ Len(rcvd.m.payload) = 29
    /\ rcvd.res.payload = Hello
    /\ Slice(rcvd.res.buf, 0, 5) = Hello

\* what the ChaCha20-Poly1305 primitive makes of the inbound TLS 1.3 payload
\* (of at least 16 bytes): the tag check and the inner plaintext
Tls13Opened ==
    LET pl == rcvd.m.payload
        L  == Len(pl)
    IN  wc_ChaCha20Poly1305_Decrypt(dec.key, Nonce_new(dec.iv, rcvd.seq),
            WCTls13Cipher_decrypt_aad(rcvd.m), Slice(pl, 0, L - 16),
            Slice(pl, L - 16, L))

\* positions of the non-zero bytes of s
NonZeroAt(s) == {i \in 1..Len(s) : s[i] # 0}

LastOf(S) == CHOOSE i \in S : \A j \in S : j <= i

\* C16: once the tag of a TLS 1.3 record has been verified, decrypt strips
\* the trailing zero bytes and takes the last non-zero byte as the content
\* type; when the authenticated plaintext is empty or all zero it returns an
\* error and no plain record.
C16_Tls13Trailer ==
    (/\ alg = CHACHA_TLS13
     /\ rcvd.res.kind # "None"
     /\ Len(rcvd.m.payload) >= 16
     /\ Tls13Opened.ret = 0) =>
        LET pt == Tls13Opened.out
            nz == NonZeroAt(pt)
        IN  IF nz = {}
              THEN /\ rcvd.res.kind = "Err"
                   /\ rcvd.res.detail = "PeerMisbehaved::IllegalTlsInnerPlaintext"
              ELSE /\ rcvd.res.kind = "Ok"
                   /\ rcvd.res.typ = pt[LastOf(nz)]
                   /\ rcvd.res.payload = SubSeq(pt, 1, LastOf(nz) - 1)

C16_Witness ==
    /\ alg = CHACHA_TLS13
    /\ rcvd.how = "peer"
    /\ Len(rcvd.m.payload) = 18
    /\ Tls13Opened.ret = 0
    /\ Tls13Opened.out = <<0, 0>>
    /\ rcvd.res.kind = "Err"

\* the encrypter and the decrypter hold what one construction gave them
AsConstructed ==
    IF alg = AES128GCM_TLS12
      THEN \E c \in AesConfigs :
              /\ enc = Aes128Gcm_encrypter(c[1], c[2], c[3])
              /\ dec = Aes128Gcm_decrypter(c[1], c[2])
      ELSE \E c \in ChachaConfigs :
              /\ enc = Chacha12_cipher(c[1], c[2])
              /\ dec = Chacha12_cipher(c[1], c[2])

\* encrypt of the suite in use
EncryptOf(self, m, seq, fault) ==
    IF alg = AES128GCM_TLS12 THEN WCTls12Encrypter_encrypt(self, m, seq, fault)
    ELSE IF alg = CHACHA_TLS12 THEN WCTls12Cipher_encrypt(self, m, seq, fault)
    ELSE WCTls13Cipher_encrypt(self, m, seq, fault)

\* decrypt of the suite in use
DecryptOf(self, m, seq, checked, writes) ==
    IF alg = AES128GCM_TLS12
      THEN WCTls12Decrypter_decrypt(self, m, seq, checked, writes)
    ELSE IF alg = CHACHA_TLS12
      THEN WCTls12Cipher_decrypt(self, m, seq, checked, writes)
    ELSE WCTls13Cipher_decrypt(self, m, seq, checked, writes)

\* the last results are those of the last calls' own arguments on the
\* instances as they are now
ResultsOfOwnCall ==
    /\ sent.res.kind # "None" =>
          sent.res = EncryptOf(enc, sent.m, sent.seq, sent.fault)
    /\ rcvd.res.kind # "None" =>
          \E checked \in BOOLEAN, writes \in BOOLEAN :
              rcvd.res = DecryptOf(dec, rcvd.m, rcvd.seq, checked, writes)

\* C19: encrypt and decrypt never modify an instance's key or IV: after any
\* sequence of calls on the encrypter and the decrypter, in any order, each
\* holds the key and IV set at construction, and the result of a call is
\* that of its own (key, IV, record, seq), whatever calls came before.
C19_Stateless ==
    /\ [](AsConstructed /\ ResultsOfOwnCall)
    /\ [][enc' = enc /\ dec' = dec /\ enc2' = enc2]_vars

C19_Witness ==
    /\ AsConstructed
    /\ sent.res.kind = "Ok"
    /\ sent.seq = <<0, 0, 0, 1>>
    /\ rcvd.res.kind = "Ok"
    /\ rcvd.how = "intact"
    /\ enc.key = dec.key

\* C20: encrypt returns an opaque record for every plaintext record, an
\* empty one included, and every sequence number whenever the primitive
\* reports success; it returns no error value, and aborts only when the
\* primitive reports a fault.
C20_EncryptTotal ==
    sent.res.kind # "None" =>
        /\ sent.res.kind \in {"Ok", "Panic"}
        /\ sent.fault <=> (sent.res.kind = "Panic")
        /\ ~sent.fault =>
              Len(sent.res.payload) = encrypted_payload_len(Len(sent.m.payload))

C20_Witness ==
    /\ alg = CHACHA_TLS12
    /\ sent.res.kind = "Ok"
    /\ ~sent.fault
    /\ sent.m.payload = << >>
    /\ sent.seq = <<32768, 0, 0, 1>>

\* C17: every native context the code initialises (the Aes of an AES-GCM
\* call, the RNG of ECDSA sign and of key exchange creation, the Hmac of an
\* HMAC key) is released exactly once, no later than the return of the call
\* or the drop of the object that owns it.
C17_ReleasedOnce ==
    \A c \in {"aes", "rng", "hmac"} :
        /\ native.ctx[c].frees <= 1
        /\ (native.ctx[c].owner = "gone" /\ native.ctx[c].inits > 0)
              => native.ctx[c].frees = 1

\* the engine is about to be called by the operation in progress
CallPending ==
    /\ native.op # ""
    /\ native.pc <= Len(CallsOf(native.op, native.k))

\* what the call needs of the structs it is given, as they are before it
Ready(call, ctx) ==
    CASE call.fn = "wc_AesGcmSetKey"
           -> ctx["aes"].inits > 0
      [] call.fn \in {"wc_AesGcmEncrypt", "wc_AesGcmDecrypt"}
           -> ctx["aes"].inits > 0 /\ ctx["aes"].keyed
      [] call.fn \in {"wc_HmacUpdate", "wc_HmacFinal"}
           -> ctx["hmac"].keyed
      [] call.fn \in {"wc_Sha384Update", "wc_Sha384Final"}
           -> ctx["sha384"].inits > 0
      [] call.fn = "wc_curve25519_shared_secret"
           -> \A i \in 1..Len(call.args) :
                 ctx[call.args[i]].inits > 0 /\ ctx[call.args[i]].keyed
      [] OTHER -> TRUE

\* C18: each native context is initialised before it is used: wc_AesInit
\* and wc_AesGcmSetKey before wc_AesGcmEncrypt/Decrypt, wc_HmacSetKey before
\* the wc_HmacUpdate and wc_HmacFinal of a sign_concat call, wc_InitSha384
\* before update and final, and both curve25519 keys initialised and
\* generated before wc_curve25519_shared_secret.
C18_InitBeforeUse ==
    [][(CallPending /\ native' # native) => Ready(native'.last, native.ctx)]_vars

\* C26: the AES-GCM TLS 1.2 decrypter's 12-byte nonce is its 4-byte implicit
\* IV followed by the first 8 bytes of the inbound payload, whatever the seq
\* argument; for a record made by an encrypter constructed with the same IV
\* it is the nonce that encrypter used, for every salt and every seq.
C26_AesDecryptNonce ==
    (alg = AES128GCM_TLS12 /\ rcvd.res.kind # "None"
       /\ Len(rcvd.m.payload) >= GCM_NONCE_LENGTH - 4) =>
        LET n == WCTls12Decrypter_nonce(dec, rcvd.m, rcvd.seq)
        IN  /\ Len(n) = GCM_NONCE_LENGTH
            /\ \A i \in 1..4 : n[i] = dec.iv[i]
            /\ \A i \in 1..8 : n[4 + i] = rcvd.m.payload[i]
            /\ \A s \in Seqs : WCTls12Decrypter_nonce(dec, rcvd.m, s) = n
            /\ rcvd.how \in {"intact", "other_seq"} => n = sent.res.nonce

\* a record sent under a non-zero seq by an encrypter with a non-zero salt is
\* decrypted under another seq
C26_Witness ==
    /\ alg = AES128GCM_TLS12
    /\ rcvd.how = "other_seq"
    /\ rcvd.res.kind = "Panic"
    /\ sent.seq # <<0, 0, 0, 0>>
    /\ rcvd.seq # sent.seq
    /\ Slice(enc.iv, 4, GCM_NONCE_LENGTH) # Zeros(8)
    /\ WCTls12Decrypter_nonce(dec, rcvd.m, rcvd.seq) = sent.res.nonce

RECURSIVE Flatten(_)
\* the chunks given to a context, end to end
Flatten(chunks) ==
    IF chunks = << >> THEN << >> ELSE Head(chunks) \o Flatten(Tail(chunks))

\* the SHA-384 digest of data, computed in one piece
DigestOf(data) ==
    wchasher_final(wchasher_update(
        wchasher_init([sha384_c_type |-> [h |-> 0, len |-> 0],
                       hash |-> Zeros(WC_SHA384_DIGEST_SIZE)]), data)).hash

\* x was returned by hash(data), y by another hash(data) or by finish on a
\* context that was given update(data) once
SameDataHashed(x, y) ==
    /\ x.op = "hash"
    /\ y.op \in {"hash", "finish"}
    /\ y.seen = x.seen

\* C23: WCSha384.hash(data) returns the same 48-byte digest every time it is
\* called on the same data, equal to the result of start(), update(data),
\* finish() on a fresh context; output_len() is 48.
C23_OneShotHash ==
    /\ WCSha384_output_len = 48
    /\ sha.out.op = "hash" => Len(sha.out.digest) = 48
    /\ SameDataHashed(sha.out, sha.prev) => sha.out.digest = sha.prev.digest
    /\ SameDataHashed(sha.prev, sha.out) => sha.out.digest = sha.prev.digest

\* hash(data) is called on non-empty data after start, update(data), finish
C23_Witness ==
    /\ SameDataHashed(sha.out, sha.prev)
    /\ sha.prev.op = "finish"
    /\ sha.out.seen = << <<104, 105>> >>
    /\ sha.out.digest # DigestOf(<< >>)

\* C28: on a SHA-384 context after any updates, fork_finish returns the
\* digest of the data absorbed so far and leaves the context unchanged; fork
\* returns a context with the same absorbed data, and later updates of the
\* one do not affect the other; finish returns the digest fork_finish
\* returns on the same state.
C28_Forking ==
    /\ [](/\ sha.out.op \in {"fork_finish", "finish"}
               => sha.out.digest = DigestOf(Flatten(sha.out.seen))
          /\ (sha.out.op = "finish" /\ sha.prev.op = "fork_finish"
                 /\ Flatten(sha.out.seen) = Flatten(sha.prev.seen))
               => sha.out.digest = sha.prev.digest)
    /\ [][/\ (sha'.out.op = "fork_finish" /\ sha'.out.at > sha.n_ops)
               => sha'.ctx = sha.ctx
          /\ (~sha.ctx["b"].live /\ sha'.ctx["b"].live)
               => /\ sha'.ctx["b"].hasher = sha.ctx["a"].hasher
                  /\ sha'.ctx["a"] = sha.ctx["a"]
          /\ (sha.ctx["a"].live /\ sha.ctx["b"].live)
               => \/ sha'.ctx["a"] = sha.ctx["a"]
                  \/ sha'.ctx["b"] = sha.ctx["b"]]_vars

\* a context is given data, forked, the fork is given more data and asked
\* for fork_finish, and then the original is finished
C28_Witness ==
    /\ sha.out.op = "finish"
    /\ sha.prev.op = "fork_finish"
    /\ sha.ctx["b"].live
    /\ ~sha.ctx["a"].live
    /\ Len(sha.out.seen) = 1
    /\ Len(sha.prev.seen) = 2
    /\ sha.prev.seen = sha.ctx["b"].seen
    /\ Head(sha.prev.seen) = Head(sha.out.seen)
    /\ sha.prev.digest # sha.out.digest

\* the last two sign_concat calls on the key object were given the same
\* first, middle and last
SameSigned ==
    /\ hm.prev.at > 0
    /\ hm.out.first = hm.prev.first
    /\ hm.out.middle = hm.prev.middle
    /\ hm.out.last = hm.prev.last

\* C22: for one key object returned by with_key, sign_concat calls with the
\* same (first, middle, last) return equal 32-byte tags; each call re-keys
\* the context, so a tag does not depend on what earlier calls absorbed.
C22_HmacRepeatable ==
    /\ hm.out.at > 0 => Len(hm.out.tag) = 32
    /\ SameSigned => hm.out.tag = hm.prev.tag

\* HMAC of data under key: keyed with the bytes of key, given the bytes of
\* data, no fewer and none beyond
HmacOf(key, data) ==
    hmac_final([key |-> key, len |-> Len(key) + Len(data),
                h |-> Absorb(Absorb(91, 0, key), Len(key), data)])

\* C27: sign_concat(first, middle, last) is the HMAC under exactly the key
\* bytes given to with_key over exactly first || middle[0] || ... || last;
\* the tag depends only on the key and the concatenation, not on how the
\* data is split into pieces.
C27_HmacInputCoverage ==
    hm.out.at > 0 =>
        hm.out.tag = HmacOf(hm.key, hm.out.first \o Flatten(hm.out.middle)
                                      \o hm.out.last)

\* C29: every foreign handle stored in a long-lived object (the Hmac of a
\* WCHmacKey, the ecc_key of an EcdsaSigningKeyP256, the two curve25519_key
\* of a KeyExchange) refers to a native struct that stays allocated while
\* the object can use or drop it: no sign_concat, sign, derive_shared_secret
\* or Drop dereferences a handle to a local of a function that has returned.
C29_HandlesAlive ==
    [][(CallPending /\ native' # native) =>
         \A i \in 1..Len(native'.last.args) :
             native.ctx[native'.last.args[i]].alloc]_vars

\* C24: for any two KeyExchange instances created by use_curve25519,
\* derive_shared_secret succeeds on both and the two shared secrets are equal.
C24_Curve25519Agreement ==
    (kx["alice"].secret.kind # "None" /\ kx["bob"].secret.kind # "None") =>
        /\ kx["alice"].secret.kind = "Ok"
        /\ kx["bob"].secret.kind = "Ok"
        /\ kx["alice"].secret.out = kx["bob"].secret.out

\* C25: the bytes sign(message) returns verify as an ECDSA P-256 signature
\* over SHA-256(message) under the same key, and are exactly the sig_sz
\* bytes the primitive produced, with nothing of the 265-byte buffer after.
C25_SignThenVerify ==
    sg.res.kind = "Ok" =>
        /\ wc_ecc_verify_hash(sg.res.sig, sg.res.digest, sg.key)
        /\ Len(sg.res.sig) = sg.res.sig_sz

\* the signature is one made with the padding and hash verifier v declares,
\* over this message, under the modulus of this public key
Genuine(v, public_key, message, signature) ==
    /\ public_key.wellformed
    /\ signature.pad = signature_alg_id(v).pad
    /\ signature.hash = signature_alg_id(v).hash
    /\ signature.msg = message
    /\ signature.n = public_key.n

\* the public key cannot be decoded: its DER is malformed, or
\* wc_RsaPublicKeyDecodeRaw refuses it
Undecodable(public_key, env) ==
    \/ ~public_key.wellformed
    \/ env.init_ret = 0 /\ env.raw_ret # 0

\* C30: verify_signature of each of the four RSA verifiers returns Ok only
\* when the public key decoded and the primitive reported a successful
\* verification of the signature over the message hashed with the
\* verifier's own hash; it returns Err(InvalidSignature) when the public key
\* cannot be decoded or the primitive reports failure; ALGORITHMS maps each
\* scheme to the verifier of the same padding and hash, and every verifier
\* in its list is the target of exactly one scheme.
C30_VerifyOutcome ==
    /\ vf.res.kind # "None" =>
          /\ vf.res.kind = "Ok" =>
                /\ vf.res.decoded
                /\ vf.res.called
                /\ Genuine(vf.v, vf.public_key, vf.message, vf.signature)
          /\ Undecodable(vf.public_key, vf.env) => vf.res.kind = "Err"
          /\ (vf.res.called /\ vf.res.ret < 0) => vf.res.kind = "Err"
          /\ (vf.res.called /\ ~Genuine(vf.v, vf.public_key, vf.message, vf.signature))
                => vf.res.kind = "Err"
    /\ \A i \in 1..Len(ALGORITHMS.mapping) :
          /\ Len(ALGORITHMS.mapping[i][2]) = 1
          /\ signature_alg_id(ALGORITHMS.mapping[i][2][1]) = ALGORITHMS.mapping[i][1]
    /\ \A j \in 1..Len(ALGORITHMS.all) :
          /\ ALGORITHMS.all[j] \in Verifiers
          /\ Cardinality({ i \in 1..Len(ALGORITHMS.mapping) :
                \E k \in 1..Len(ALGORITHMS.mapping[i][2]) :
                    ALGORITHMS.mapping[i][2][k] = ALGORITHMS.all[j] }) = 1

\* the PSS-SHA384 verifier accepted a signature
C30_Witness ==
    /\ vf.v = "RSA_PSS_SHA384"
    /\ vf.res.kind = "Ok"
    /\ vf.res.ret = WC_SHA384_DIGEST_SIZE

====
